---- MODULE Spec2Model ----
(***************************************************************************)
(* Verification model of the klashibot decision-and-execution core:        *)
(*   - risk/manager.py      RiskManager (Kelly sizing, breakers, cooldown) *)
(*   - trading_engine.py    CircuitBreaker, AsyncCache                     *)
(* Money is in dollars and prices in cents, both as exact rationals        *)
(* [n, d]; the clock is in minutes for the risk manager, in seconds for the *)
(* breaker and the cache, and in hundredths of a second for the rate       *)
(* limiter.                                                                *)
(***************************************************************************)
EXTENDS Integers, Sequences, FiniteSets, TLC

(***************************************************************************)
(* Exact rational arithmetic standing for the program's floats.            *)
(***************************************************************************)
Abs(x) == IF x < 0 THEN -x ELSE x

RECURSIVE GCD(_, _)
GCD(a, b) == IF b = 0 THEN a ELSE GCD(b, a % b)

\* the normalised rational n/d (d /= 0)
Frac(n, d) ==
    LET g == GCD(Abs(n), Abs(d))
        s == IF d < 0 THEN -1 ELSE 1
    IN  [n |-> (s * n) \div g, d |-> (s * d) \div g]

Zero == Frac(0, 1)
One == Frac(1, 1)
FromInt(i) == Frac(i, 1)
FAdd(a, b) == Frac(a.n * b.d + b.n * a.d, a.d * b.d)
FSub(a, b) == Frac(a.n * b.d - b.n * a.d, a.d * b.d)
FMul(a, b) == Frac(a.n * b.n, a.d * b.d)
FDiv(a, b) == Frac(a.n * b.d, a.d * b.n)
FLt(a, b) == a.n * b.d < b.n * a.d
FLe(a, b) == a.n * b.d <= b.n * a.d
FMin(a, b) == IF FLe(a, b) THEN a ELSE b
FMax(a, b) == IF FLe(a, b) THEN b ELSE a
FAbs(a) == [n |-> Abs(a.n), d |-> a.d]
\* Python's int(): truncation toward zero
PyIntCeil(a) == IF a.n >= 0 THEN (a.n + a.d - 1) \div a.d ELSE -((-a.n) \div a.d)
PyInt(a) == IF a.n >= 0 THEN a.n \div a.d ELSE -((-a.n) \div a.d)

\* Python's None where a float is optional
NoneVal == [n |-> 0, d |-> 0]

\* deque(maxlen=m).append(x)
DequeAppend(q, x, m) ==
    IF Len(q) >= m THEN Append(Tail(q), x) ELSE Append(q, x)

(***************************************************************************)
(* RiskConfig (defaults of the dataclass; the two trade-frequency caps are *)
(* a configuration with small caps so that the caps are reached).          *)
(***************************************************************************)
MaxTradesPerHour == 2
MaxTradesPerDay == 3

config ==
    [max_position_size_usd       |-> FromInt(100),
     max_portfolio_allocation    |-> Frac(25, 100),
     max_single_trade_allocation |-> Frac(10, 100),
     max_daily_loss_usd          |-> FromInt(30),
     max_daily_loss_pct          |-> Frac(10, 100),
     max_drawdown_limit          |-> Frac(20, 100),
     max_intraday_drawdown       |-> Frac(15, 100),
     kelly_multiplier            |-> Frac(5, 10),
     min_kelly_fraction          |-> Frac(1, 100),
     max_kelly_fraction          |-> Frac(50, 100),
     volatility_adjustment       |-> TRUE,
     max_volatility_threshold    |-> Frac(40, 100),
     max_concentration           |-> Frac(30, 100),
     min_edge                    |-> Frac(5, 10),
     min_confidence              |-> Frac(3, 10),
     min_liquidity_score         |-> Frac(1, 10),
     max_trades_per_hour         |-> MaxTradesPerHour,
     max_trades_per_day          |-> MaxTradesPerDay,
     cooldown_period_minutes     |-> 5]

\* timedelta(hours=1), timedelta(days=1), in minutes
HourMinutes == 60
DayMinutes == 1440

\* maxlen of the three ring buffers
TradeHistoryMaxLen == 1000
HourlyTradesMaxLen == 100
DailyTradesMaxLen == 200

(***************************************************************************)
(* Inputs                                                                  *)
(***************************************************************************)
MaxTrades == 3

Tickers == {"T1", "T2"}

\* MarketOpportunity after __post_init__ (models.py): the fields the risk
\* manager reads
BaseOpp ==
    [ticker |-> "T1", edge |-> FromInt(5), confidence |-> One,
     side |-> "yes", entry_price |-> FromInt(50), suggested_size |-> 10,
     liquidity_score |-> One, probability |-> Frac(60, 100),
     correlation_group |-> "crypto"]

OppVariants ==
    { BaseOpp,
      [BaseOpp EXCEPT !.probability = Frac(40, 100)],
      [BaseOpp EXCEPT !.probability = Frac(50, 100)],
      [BaseOpp EXCEPT !.edge = Frac(4, 10)],
      [BaseOpp EXCEPT !.confidence = Frac(2, 10)],
      [BaseOpp EXCEPT !.liquidity_score = Frac(5, 100)],
      [BaseOpp EXCEPT !.entry_price = Zero],
      [BaseOpp EXCEPT !.entry_price = FromInt(100)],
      [BaseOpp EXCEPT !.entry_price = Frac(1, 2)],
      [BaseOpp EXCEPT !.entry_price = FromInt(30), !.side = "no",
                      !.edge = Frac(15, 10), !.suggested_size = 40],
      [BaseOpp EXCEPT !.entry_price = FromInt(5), !.probability = Frac(10, 100)] }

Opps == { [v EXCEPT !.ticker = t] : v \in OppVariants, t \in Tickers \cup {""} }

\* portfolio snapshots {"balance": ..., "active_value": ...}, in dollars
Portfolios ==
    { [balance |-> FromInt(100), active_value |-> Zero],
      [balance |-> FromInt(85), active_value |-> Zero],
      [balance |-> FromInt(2000), active_value |-> Zero],
      [balance |-> Zero, active_value |-> Zero] }

\* values the volatility estimate takes once price history exists
VolSet == { Zero, Frac(15, 100), Frac(80, 100) }

VARIABLES
    now,                    \* the clock
    daily_pnl, weekly_pnl, peak_balance, current_drawdown, intraday_drawdown,
    active_positions_value,
    active_positions,       \* ticker -> Position
    trade_history, hourly_trades, daily_trades,
    ticker_last_trade,      \* ticker -> time
    volatility_estimate,
    circuit_breakers,
    call,                   \* the last call made and what it returned
    state, failure_count, last_failure_time,    \* CircuitBreaker
    in_flight,              \* caller -> how its call was let in, "none" if idle
    breaker_log,            \* what the breaker did last, and when it opened
    redis,                  \* AsyncCache: is a remote store configured
    use_orjson,             \* which json_dumps/json_loads the build imported
    redis_data,             \* the remote store: key -> [data, expires]
    local_cache,            \* key -> value
    local_ttl,              \* <<[key, expires]>>, in insertion order
    hits, misses,
    cache_log,              \* the last cache operation and what it returned
    rate_limiter,           \* free permits of the semaphore
    request_timestamps,
    limited,                \* caller -> where it is in _rate_limited_call
    pool,                   \* ConnectionPool.pool, the queue of idle sessions
    active_connections,
    getters,                \* the callers waiting in pool.get(), in order
    pooled,                 \* caller -> where it is in acquire, and its session
    pool_log,               \* the last pool event
    market_scan_breaker,
    scan,                   \* the call of scan_markets_parallel
    series,                 \* series -> its bounded_fetch task
    scan_semaphore,
    cycle,                  \* the call of find_best_opportunities
    analysis,               \* ticker -> its bounded_analysis task
    analysis_semaphore,
    strategy,               \* ticker -> strategy -> its run_strategy task
    strategy_semaphore,     \* ticker -> permits of analyze_market's semaphore
    execution_metrics,      \* total_orders and filled_orders
    engine_trade_history,   \* TradingEngine.trade_history
    price_impact_history,   \* ticker -> the executions recorded for it
    execution,              \* caller -> its call of execute_trade_fast
    venue,                  \* the orders the venue was sent, and answered
    signals,                \* the opportunities analyze_market returned
    aggregated,             \* what aggregate_signals made of them
    manager,                \* the call of StrategyManager.analyze_market
    runs,                   \* strategy -> its run_strategy task
    constructed,            \* the last MarketOpportunity(...) call
    pipeline,               \* one market on its way from data to order
    sentiment,              \* SentimentStrategy: last_update, _updating, cache
    news_tasks,             \* caller -> its call of _update_news
    news_log,               \* the rounds of feed requests started, and when
    bridge                  \* WebSocketBridge: bot_state and its loop tasks

riskFields ==
    <<daily_pnl, weekly_pnl, peak_balance, current_drawdown, intraday_drawdown,
      active_positions_value, active_positions, trade_history, hourly_trades,
      daily_trades, ticker_last_trade, volatility_estimate, circuit_breakers>>

breakerFields ==
    <<state, failure_count, last_failure_time, in_flight, breaker_log>>

cacheFields ==
    <<redis, use_orjson, redis_data, local_cache, local_ttl, hits, misses,
      cache_log>>

limiterFields == <<rate_limiter, request_timestamps, limited>>

poolFields == <<pool, active_connections, getters, pooled, pool_log>>

scanFields == <<market_scan_breaker, scan, series, scan_semaphore>>

cycleFields ==
    <<cycle, analysis, analysis_semaphore, strategy, strategy_semaphore>>

signalFields == <<signals, aggregated>>

managerFields == <<manager, runs>>

newsFields == <<sentiment, news_tasks, news_log>>

bridgeFields == <<bridge>>

objectFields == <<constructed, pipeline, newsFields, bridgeFields>>

tradeFields ==
    <<execution_metrics, engine_trade_history, price_impact_history, execution, venue, signalFields,
      managerFields, objectFields>>

serviceFields ==
    <<limiterFields, poolFields, scanFields, cycleFields, tradeFields>>

engineFields == <<breakerFields, cacheFields, serviceFields>>

vars == <<now, riskFields, call, engineFields>>

NoPortfolio == [balance |-> Zero, active_value |-> Zero]
CallOf(op, o, pf, n, r) ==
    [op |-> op, opp |-> o, pf |-> pf, size |-> n, raised |-> r]
NoCall == CallOf("none", BaseOpp, NoPortfolio, 0, FALSE)

(***************************************************************************)
(* RiskManager                                                             *)
(***************************************************************************)
RiskInit ==
    /\ daily_pnl = Zero
    /\ weekly_pnl = Zero
    /\ peak_balance = Zero
    /\ current_drawdown = Zero
    /\ intraday_drawdown = Zero
    /\ active_positions_value = Zero
    /\ active_positions = <<>>
    /\ trade_history = <<>>
    /\ hourly_trades = <<>>
    /\ daily_trades = <<>>
    /\ ticker_last_trade = <<>>
    /\ volatility_estimate = Frac(15, 100)
    /\ circuit_breakers =
           [daily_loss |-> FALSE, drawdown |-> FALSE,
            volatility |-> FALSE, trade_frequency |-> FALSE]

\* sum(1 for t in buffer if t > cutoff)
CountAfter(buffer, cutoff) ==
    Cardinality({ i \in 1..Len(buffer) : buffer[i] > cutoff })

\* recent >= limit, the comparison of the trade-frequency breaker
FrequencyAtLimit(recent, limit) == recent >= limit

\* the breaker flags _update_circuit_breakers computes from the fields given
BreakersFor(pnl, peak, cur_dd, intra_dd, hourly, daily, t) ==
    LET daily_loss_pct == FDiv(FAbs(pnl), FMax(peak, One))
        recent_hourly == CountAfter(hourly, t - HourMinutes)
        recent_daily == CountAfter(daily, t - DayMinutes)
    IN  [daily_loss |->
             \/ FLt(pnl, FSub(Zero, config.max_daily_loss_usd))
             \/ FLt(config.max_daily_loss_pct, daily_loss_pct),
         drawdown |->
             \/ FLt(config.max_drawdown_limit, cur_dd)
             \/ FLt(config.max_intraday_drawdown, intra_dd),
         volatility |-> circuit_breakers.volatility,
         trade_frequency |->
             \/ FrequencyAtLimit(recent_hourly, config.max_trades_per_hour)
             \/ FrequencyAtLimit(recent_daily, config.max_trades_per_day)]

update_portfolio_state(pf) ==
    LET balance == pf.balance
        total_equity == FAdd(balance, pf.active_value)
        new_peak == FLt(peak_balance, total_equity)
        peak == IF new_peak THEN total_equity ELSE peak_balance
        intra0 == IF new_peak THEN Zero ELSE intraday_drawdown
        cur == IF FLt(Zero, peak)
               THEN FDiv(FSub(peak, total_equity), peak)
               ELSE current_drawdown
        intra == IF FLt(Zero, peak) THEN FMax(intra0, cur) ELSE intra0
    IN  /\ active_positions_value' = pf.active_value
        /\ peak_balance' = peak
        /\ current_drawdown' = cur
        /\ intraday_drawdown' = intra
        /\ circuit_breakers' =
               BreakersFor(daily_pnl, peak, cur, intra,
                           hourly_trades, daily_trades, now)
        /\ call' = CallOf("update_portfolio_state", BaseOpp, pf, 0, FALSE)
        /\ UNCHANGED <<now, engineFields, daily_pnl, weekly_pnl,
                       active_positions, trade_history, hourly_trades, daily_trades,
                       ticker_last_trade, volatility_estimate>>

calculate_volatility_adjustment ==
    IF FLe(volatility_estimate, Zero) THEN One
    ELSE IF FLt(config.max_volatility_threshold, volatility_estimate)
         THEN FDiv(config.max_volatility_threshold, volatility_estimate)
         ELSE One

RECURSIVE ExposureOver(_, _)
ExposureOver(S, group) ==
    IF S = {} THEN Zero
    ELSE LET t == CHOOSE x \in S : TRUE
             position == active_positions[t]
             rest == ExposureOver(S \ {t}, group)
         IN  IF position.market_correlation_group = group
             THEN FAdd(rest, FDiv(FMul(FromInt(position.size),
                                       position.entry_price), FromInt(100)))
             ELSE rest

\* _get_correlation_exposure
NoExposure(group) == Zero
get_correlation_exposure(group) == ExposureOver(DOMAIN active_positions, group)

\* the cooldown gate of check_trade_risk
CooldownNever(ticker) == FALSE
CooldownActive(ticker) ==
    /\ ticker \in DOMAIN ticker_last_trade
    /\ now - ticker_last_trade[ticker] < config.cooldown_period_minutes

KellyFraction(opportunity) ==
    LET win_prob == opportunity.probability
        net_odds == FDiv(FSub(FromInt(100), opportunity.entry_price),
                         opportunity.entry_price)
    IN  FSub(win_prob, FDiv(FSub(One, win_prob), net_odds))

\* if kelly_fraction <= 0: return 0
KellyRejectsStrict(kelly_fraction) == FLt(kelly_fraction, Zero)
KellyRejects(kelly_fraction) == FLe(kelly_fraction, Zero)

\* steps 5-9 of check_trade_risk, for an entry price inside (0, 100)
SizePosition(opportunity, pf) ==
    LET balance == pf.balance
        entry_price == opportunity.entry_price
        kelly_fraction == KellyFraction(opportunity)
        target0 == FMax(config.min_kelly_fraction,
                        FMin(FMul(kelly_fraction, config.kelly_multiplier),
                             config.max_kelly_fraction))
        target_fraction ==
            IF config.volatility_adjustment
            THEN FMul(target0, calculate_volatility_adjustment)
            ELSE target0
        max_alloc_fraction ==
            FMin(FMin(target_fraction, config.max_portfolio_allocation),
                 config.max_single_trade_allocation)
        trade_amount_usd ==
            FMin(FMul(balance, max_alloc_fraction), config.max_position_size_usd)
        trade_amount_cents == FMul(trade_amount_usd, FromInt(100))
        num_contracts == PyInt(FDiv(trade_amount_cents, entry_price))
        current_exposure ==
            get_correlation_exposure(opportunity.correlation_group)
        potential_exposure ==
            FAdd(current_exposure,
                 FDiv(FMul(FromInt(num_contracts), entry_price), FromInt(100)))
        max_exposure == FMul(balance, config.max_concentration)
        available_exposure == FSub(max_exposure, current_exposure)
        fitted ==
            IF FLt(max_exposure, potential_exposure)
            THEN IF FLe(available_exposure, Zero) THEN 0
                 ELSE PyInt(FDiv(FMul(available_exposure, FromInt(100)),
                                 entry_price))
            ELSE num_contracts
    IN  IF KellyRejects(kelly_fraction) THEN 0
        ELSE IF fitted < 1 THEN 0
        ELSE fitted

check_trade_risk(opportunity, pf) ==
    IF opportunity.ticker = "" THEN 0
    ELSE IF circuit_breakers.daily_loss THEN 0
    ELSE IF circuit_breakers.drawdown THEN 0
    ELSE IF circuit_breakers.trade_frequency THEN 0
    ELSE IF FLt(opportunity.edge, config.min_edge) THEN 0
    ELSE IF FLt(opportunity.confidence, config.min_confidence) THEN 0
    ELSE IF FLt(opportunity.liquidity_score, config.min_liquidity_score) THEN 0
    ELSE IF CooldownActive(opportunity.ticker) THEN 0
    ELSE IF \/ FLe(opportunity.entry_price, Zero)
            \/ FLe(FromInt(100), opportunity.entry_price) THEN 0
    ELSE SizePosition(opportunity, pf)

\* the fields check_trade_risk leaves behind
CheckEffectStamps(opportunity) ==
    /\ ticker_last_trade' = (opportunity.ticker :> now) @@ ticker_last_trade
    /\ UNCHANGED <<daily_pnl, weekly_pnl, peak_balance, current_drawdown,
                   intraday_drawdown, active_positions_value, active_positions,
                   trade_history, hourly_trades, daily_trades,
                   volatility_estimate, circuit_breakers>>
CheckEffect(opportunity) == UNCHANGED riskFields

CheckTradeRisk(opportunity, pf) ==
    /\ call' = CallOf("check_trade_risk", opportunity, pf,
                      check_trade_risk(opportunity, pf), FALSE)
    /\ CheckEffect(opportunity)
    /\ UNCHANGED <<now, engineFields>>

\* _assess_risk_level; portfolio.get("balance", 1.0) is the divisor
assess_risk_level(opportunity, pf) ==
    LET position_value ==
            FDiv(FMul(FromInt(opportunity.suggested_size),
                      opportunity.entry_price), FromInt(100))
        allocation_pct == FDiv(position_value, pf.balance)
    IN  IF FLt(Frac(20, 100), allocation_pct) \/ FLt(opportunity.edge, One)
        THEN "critical"
        ELSE IF \/ FLt(Frac(10, 100), allocation_pct)
                \/ FLt(opportunity.edge, FromInt(2))
        THEN "high"
        ELSE IF FLt(Frac(5, 100), allocation_pct) THEN "medium"
        ELSE "low"

\* the division of _assess_risk_level raises ZeroDivisionError
AssessRaises(pf) == pf.balance.n = 0

NewPosition(opportunity, num_contracts) ==
    [ticker |-> opportunity.ticker, side |-> opportunity.side,
     size |-> num_contracts, entry_price |-> opportunity.entry_price,
     entry_time |-> now, current_price |-> NoneVal, unrealized_pnl |-> Zero,
     market_correlation_group |-> opportunity.correlation_group]

NewTradeRecord(opportunity, num_contracts, pf) ==
    [ticker |-> opportunity.ticker, side |-> opportunity.side,
     size |-> num_contracts, entry_price |-> opportunity.entry_price,
     exit_price |-> NoneVal, pnl |-> Zero, timestamp |-> now,
     risk_level |-> assess_risk_level(opportunity, pf)]

record_trade(opportunity, num_contracts, pf) ==
    LET ticker == opportunity.ticker
    IN  /\ active_positions' =
               (ticker :> NewPosition(opportunity, num_contracts))
                   @@ active_positions
        /\ ticker_last_trade' = (ticker :> now) @@ ticker_last_trade
        /\ hourly_trades' = DequeAppend(hourly_trades, now, HourlyTradesMaxLen)
        /\ daily_trades' = DequeAppend(daily_trades, now, DailyTradesMaxLen)
        /\ IF AssessRaises(pf)
           THEN /\ trade_history' = trade_history
                /\ call' = CallOf("record_trade", opportunity, pf, num_contracts,
                                 TRUE)
           ELSE /\ trade_history' =
                       DequeAppend(trade_history,
                                   NewTradeRecord(opportunity, num_contracts, pf),
                                   TradeHistoryMaxLen)
                /\ call' = CallOf("record_trade", opportunity, pf, num_contracts,
                                 FALSE)
        /\ UNCHANGED <<now, engineFields, daily_pnl, weekly_pnl, peak_balance,
                       current_drawdown, intraday_drawdown,
                       active_positions_value, volatility_estimate,
                       circuit_breakers>>

\* the index of the newest open TradeRecord of the ticker, 0 if none
OpenTradeIndex(ticker) ==
    LET open == { i \in 1..Len(trade_history) :
                      /\ trade_history[i].ticker = ticker
                      /\ trade_history[i].exit_price = NoneVal }
    IN  IF open = {} THEN 0 ELSE CHOOSE i \in open : \A j \in open : j <= i

record_trade_result(ticker, pnl, exit_price) ==
    LET i == OpenTradeIndex(ticker)
    IN  /\ daily_pnl' = FAdd(daily_pnl, pnl)
        /\ weekly_pnl' = FAdd(weekly_pnl, pnl)
        /\ active_positions' =
               [t \in DOMAIN active_positions \ {ticker} |-> active_positions[t]]
        /\ trade_history' =
               IF i = 0 THEN trade_history
               ELSE [trade_history EXCEPT ![i].exit_price = exit_price,
                                          ![i].pnl = pnl]
        /\ call' = CallOf("record_trade_result", BaseOpp, NoPortfolio, 0, FALSE)
        /\ UNCHANGED <<now, engineFields, peak_balance, current_drawdown,
                       intraday_drawdown, active_positions_value,
                       hourly_trades, daily_trades, ticker_last_trade,
                       volatility_estimate, circuit_breakers>>

\* update_position_price with _update_volatility_estimate: the estimate is
\* sqrt(variance of the returns) * sqrt(252) once 10 returns exist; it is
\* taken here as any value of VolSet, or left as it is
update_position_price(ticker, current_price, vol) ==
    /\ IF ticker \in DOMAIN active_positions
       THEN LET position == active_positions[ticker]
                diff == IF position.side = "yes"
                        THEN FSub(current_price, position.entry_price)
                        ELSE FSub(position.entry_price, current_price)
                pnl == FDiv(FMul(diff, FromInt(position.size)), FromInt(100))
            IN  /\ active_positions' =
                       [active_positions EXCEPT
                            ![ticker].current_price = current_price,
                            ![ticker].unrealized_pnl = pnl]
                /\ volatility_estimate' = vol
       ELSE UNCHANGED <<active_positions, volatility_estimate>>
    /\ call' = CallOf("update_position_price", BaseOpp, NoPortfolio, 0, FALSE)
    /\ UNCHANGED <<now, engineFields, daily_pnl, weekly_pnl, peak_balance,
                   current_drawdown, intraday_drawdown, active_positions_value,
                   trade_history, hourly_trades, daily_trades,
                   ticker_last_trade, circuit_breakers>>

reset_daily_metrics ==
    /\ daily_pnl' = Zero
    /\ intraday_drawdown' = Zero
    /\ hourly_trades' = <<>>
    /\ call' = CallOf("reset_daily_metrics", BaseOpp, NoPortfolio, 0, FALSE)
    /\ UNCHANGED <<now, engineFields, weekly_pnl, peak_balance, current_drawdown,
                   active_positions_value, active_positions, trade_history,
                   daily_trades, ticker_last_trade, volatility_estimate,
                   circuit_breakers>>

reset_weekly_metrics ==
    /\ weekly_pnl' = Zero
    /\ daily_trades' = <<>>
    /\ call' = CallOf("reset_weekly_metrics", BaseOpp, NoPortfolio, 0, FALSE)
    /\ UNCHANGED <<now, engineFields, daily_pnl, peak_balance, current_drawdown,
                   intraday_drawdown, active_positions_value, active_positions,
                   trade_history, hourly_trades, ticker_last_trade,
                   volatility_estimate, circuit_breakers>>

(***************************************************************************)
(* CircuitBreaker (trading_engine.py).  The lock is held while the state   *)
(* is examined and while an outcome is booked, not while the operation     *)
(* runs, so a call is two steps with other callers' steps between them.    *)
(***************************************************************************)
\* trade_execution_breaker = CircuitBreaker(failure_threshold=5,
\*                                          recovery_timeout=30)
FailureThreshold == 5
RecoveryTimeout == 30

\* the most failures one run books
MaxFailures == 7

Callers == {"A", "B", "C"}

\* last_failure_time = None is 0: time.time() is never 0
BreakerInit ==
    /\ state = "closed"
    /\ failure_count = 0
    /\ last_failure_time = 0
    /\ in_flight = [c \in Callers |-> "none"]
    /\ breaker_log =
           [event |-> "none", caller |-> "none", opened_at |-> 0,
            consecutive_failures |-> 0]

ThresholdPassed(count) == count > FailureThreshold
ThresholdReached(count) == count >= FailureThreshold

\* self.last_failure_time and time.time() - self.last_failure_time > timeout
RecoveryElapsed ==
    /\ last_failure_time /= 0
    /\ now - last_failure_time > RecoveryTimeout

\* call(), to the await of func: the caller is let in or CircuitBreakerOpen
\* is raised
CallAdmission(c) ==
    /\ in_flight[c] = "none"
    /\ IF state = "open"
       THEN IF RecoveryElapsed
            THEN /\ state' = "half-open"
                 /\ in_flight' = [in_flight EXCEPT ![c] = "trial"]
                 /\ breaker_log' = [breaker_log EXCEPT !.event = "admitted",
                                                       !.caller = c]
            ELSE /\ breaker_log' = [breaker_log EXCEPT !.event = "rejected",
                                                       !.caller = c]
                 /\ UNCHANGED <<state, in_flight>>
       ELSE /\ in_flight' = [in_flight EXCEPT ![c] = state]
            /\ breaker_log' = [breaker_log EXCEPT !.event = "admitted",
                                                  !.caller = c]
            /\ UNCHANGED state
    /\ UNCHANGED <<failure_count, last_failure_time>>

\* a call made on the breaker by itself
BreakerCall(c) ==
    /\ CallAdmission(c)
    /\ UNCHANGED <<now, riskFields, call, cacheFields, serviceFields>>

\* call(), func has returned
CallReturned(c) ==
    /\ in_flight[c] /= "none"
    /\ in_flight' = [in_flight EXCEPT ![c] = "none"]
    /\ IF state = "half-open"
       THEN state' = "closed" /\ failure_count' = 0
       ELSE UNCHANGED <<state, failure_count>>
    /\ breaker_log' = [breaker_log EXCEPT !.event = "returned", !.caller = c,
                                          !.consecutive_failures = 0]
    /\ UNCHANGED last_failure_time

\* func has returned to a caller of the breaker alone
BreakerCallReturns(c) ==
    /\ CallReturned(c)
    /\ UNCHANGED <<now, riskFields, call, cacheFields, serviceFields>>

\* call(), func has raised
CallRaised(c) ==
    /\ in_flight[c] /= "none"
    /\ failure_count < MaxFailures
    /\ in_flight' = [in_flight EXCEPT ![c] = "none"]
    /\ failure_count' = failure_count + 1
    /\ last_failure_time' = now
    /\ state' = IF ThresholdReached(failure_count + 1) THEN "open" ELSE state
    /\ breaker_log' =
           [event |-> "raised", caller |-> c,
            opened_at |-> IF ThresholdReached(failure_count + 1)
                             /\ state /= "open"
                          THEN now ELSE breaker_log.opened_at,
            consecutive_failures |-> breaker_log.consecutive_failures + 1]

\* func has raised to a caller of the breaker alone
BreakerCallRaises(c) ==
    /\ CallRaised(c)
    /\ UNCHANGED <<now, riskFields, call, cacheFields, serviceFields>>

(***************************************************************************)
(* AsyncCache (trading_engine.py)                                          *)
(***************************************************************************)
DefaultTtl == 60
LocalMaxSize == 1
MaxLookups == 2

\* the keys the engine uses: the scan's key and one analysis key
CacheKeys == {"global_market_cache", "opp_T1"}
Ttls == {0, 15}

\* the values the engine caches: the list of scanned markets, and
\* asdict(opportunity), whose timestamp is a datetime
Markets == [type |-> "markets", timestamp |-> "none"]
OpportunityDict == [type |-> "opportunity", timestamp |-> "datetime"]
\* what the engine stores under each key
CachedUnder(key) ==
    IF key = "global_market_cache" THEN Markets ELSE OpportunityDict
PyNone == [type |-> "None", timestamp |-> "none"]

\* json.dumps raises TypeError on a datetime; orjson.dumps writes it as an
\* ISO string
JsonDumpsRaises(value) == ~use_orjson /\ value.timestamp = "datetime"
json_dumps(value) ==
    [json |-> [value EXCEPT !.timestamp =
                   IF @ = "datetime" THEN "str" ELSE @]]
json_loads(data) == data.json

CacheInit(r, o) ==
    /\ redis = r
    /\ use_orjson = o
    /\ redis_data = <<>>
    /\ local_cache = <<>>
    /\ local_ttl = <<>>
    /\ hits = 0
    /\ misses = 0
    /\ cache_log = [op |-> "none", key |-> "none", value |-> PyNone,
                    at |-> 0, remote |-> "absent", result |-> PyNone,
                    expired |-> FALSE, evicted |-> "none"]

\* how the remote store answers one call
RemoteOutcomes == {"ok", "failing"}
RemoteOf(remote) == IF redis THEN remote ELSE "absent"

\* the remote store holds an unexpired entry for the key
RemoteHas(key) ==
    /\ key \in DOMAIN redis_data
    /\ now < redis_data[key].expires

LocalKeys(ttl_items) == { ttl_items[i].key : i \in 1..Len(ttl_items) }
LocalExpiry(key) ==
    LET i == CHOOSE j \in 1..Len(local_ttl) : local_ttl[j].key = key
    IN  local_ttl[i].expires

\* d[key] = expires on a dict: in place for a key it has, at the end otherwise
TtlAssign(ttl_items, key, expires) ==
    IF key \in LocalKeys(ttl_items)
    THEN [i \in 1..Len(ttl_items) |->
             IF ttl_items[i].key = key
             THEN [key |-> key, expires |-> expires] ELSE ttl_items[i]]
    ELSE Append(ttl_items, [key |-> key, expires |-> expires])

TtlRemove(ttl_items, key) ==
    SelectSeq(ttl_items, LAMBDA e : e.key /= key)

MapRemove(map, key) == [k \in DOMAIN map \ {key} |-> map[k]]

\* the entry inserted first
FirstInserted(ttl_items) == ttl_items[1].key

\* min(self.local_ttl.items(), key=lambda x: x[1])[0]: the first of the
\* entries with the least expiry
OldestKey(ttl_items) ==
    LET least == { i \in 1..Len(ttl_items) :
                     \A j \in 1..Len(ttl_items) :
                         ttl_items[i].expires <= ttl_items[j].expires }
        first == CHOOSE i \in least : \A j \in least : i <= j
    IN  ttl_items[first].key

\* datetime.now() < self.local_ttl.get(key, datetime.min)
LocalFreshInclusive(key) == now <= LocalExpiry(key)
LocalFresh(key) == now < LocalExpiry(key)

\* what get does to the cache; the value returned is cache_log'.result
CacheGet(key, remote) ==
    /\ IF RemoteOf(remote) = "ok" /\ RemoteHas(key)
       THEN /\ hits' = hits + 1
            /\ cache_log' = [op |-> "get", key |-> key, value |-> PyNone,
                             at |-> now, remote |-> RemoteOf(remote),
                             result |-> json_loads(redis_data[key].data),
                             expired |-> FALSE, evicted |-> "none"]
            /\ UNCHANGED <<local_cache, local_ttl, misses>>
       ELSE IF key \in DOMAIN local_cache
       THEN IF LocalFresh(key)
            THEN /\ hits' = hits + 1
                 /\ cache_log' = [op |-> "get", key |-> key, value |-> PyNone,
                                  at |-> now, remote |-> RemoteOf(remote),
                                  result |-> local_cache[key],
                                  expired |-> FALSE, evicted |-> "none"]
                 /\ UNCHANGED <<local_cache, local_ttl, misses>>
            ELSE /\ local_cache' = MapRemove(local_cache, key)
                 /\ local_ttl' = TtlRemove(local_ttl, key)
                 /\ misses' = misses + 1
                 /\ cache_log' = [op |-> "get", key |-> key, value |-> PyNone,
                                  at |-> now, remote |-> RemoteOf(remote),
                                  result |-> PyNone, expired |-> TRUE,
                                  evicted |-> "none"]
                 /\ UNCHANGED hits
       ELSE /\ misses' = misses + 1
            /\ cache_log' = [op |-> "get", key |-> key, value |-> PyNone,
                             at |-> now, remote |-> RemoteOf(remote),
                             result |-> PyNone, expired |-> FALSE, evicted |-> "none"]
            /\ UNCHANGED <<local_cache, local_ttl, hits>>
    /\ UNCHANGED <<redis, use_orjson, redis_data>>

get(key, remote) ==
    /\ hits + misses < MaxLookups
    /\ CacheGet(key, remote)
    /\ UNCHANGED <<now, riskFields, call, breakerFields, serviceFields>>

\* ttl = ttl or self.default_ttl
EffectiveTtl(ttl_arg) == IF ttl_arg = 0 THEN DefaultTtl ELSE ttl_arg

\* the try block of set reached its return: setex and json_dumps did not raise
RemoteAttempted(value, remote) == redis
RemoteWritten(value, remote) ==
    RemoteOf(remote) = "ok" /\ ~JsonDumpsRaises(value)

\* what set does to the cache
CacheSet(key, value, ttl_arg, remote) ==
    LET ttl == EffectiveTtl(ttl_arg)
        stored == (key :> value) @@ local_cache
        expiries == TtlAssign(local_ttl, key, now + ttl)
        oldest_key == OldestKey(expiries)
    IN  /\ IF RemoteWritten(value, remote)
           THEN /\ redis_data' =
                       (key :> [data |-> json_dumps(value),
                                expires |-> now + ttl]) @@ redis_data
                /\ UNCHANGED <<local_cache, local_ttl>>
           ELSE /\ IF Cardinality(DOMAIN stored) > LocalMaxSize
                   THEN /\ local_cache' = MapRemove(stored, oldest_key)
                        /\ local_ttl' = TtlRemove(expiries, oldest_key)
                   ELSE /\ local_cache' = stored
                        /\ local_ttl' = expiries
                /\ UNCHANGED redis_data
        /\ cache_log' = [op |-> "set", key |-> key, value |-> value,
                         at |-> now, remote |-> RemoteOf(remote),
                         result |-> PyNone, expired |-> FALSE,
                         evicted |->
                             IF /\ ~RemoteWritten(value, remote)
                                /\ Cardinality(DOMAIN stored) > LocalMaxSize
                             THEN oldest_key ELSE "none"]
        /\ UNCHANGED <<redis, use_orjson, hits, misses>>

set(key, value, ttl_arg, remote) ==
    /\ CacheSet(key, value, ttl_arg, remote)
    /\ UNCHANGED <<now, riskFields, call, breakerFields, serviceFields>>

delete(key, remote) ==
    /\ redis_data' = IF RemoteOf(remote) = "ok"
                     THEN MapRemove(redis_data, key) ELSE redis_data
    /\ local_cache' = MapRemove(local_cache, key)
    /\ local_ttl' = TtlRemove(local_ttl, key)
    /\ cache_log' = [op |-> "delete", key |-> key, value |-> PyNone,
                     at |-> now, remote |-> RemoteOf(remote),
                     result |-> PyNone, expired |-> FALSE, evicted |-> "none"]
    /\ UNCHANGED <<redis, use_orjson, hits, misses>>
    /\ UNCHANGED <<now, riskFields, call, breakerFields, serviceFields>>

\* get_many: the dict returned is logged as a function on the keys asked
\* for, with None for a key the dict does not hold
get_many(keys, remote) ==
    LET from_remote == IF RemoteOf(remote) = "ok"
                       THEN { k \in keys : RemoteHas(k) } ELSE {}
        from_local == { k \in keys \ from_remote :
                          k \in DOMAIN local_cache /\ LocalFresh(k) }
        results == [k \in keys |->
                       IF k \in from_remote
                       THEN json_loads(redis_data[k].data)
                       ELSE IF k \in from_local THEN local_cache[k]
                       ELSE PyNone]
    IN  /\ cache_log' = [op |-> "get_many", key |-> "none", value |-> PyNone,
                         at |-> now, remote |-> RemoteOf(remote),
                         result |-> results, expired |-> FALSE, evicted |-> "none"]
        /\ UNCHANGED <<redis, use_orjson, redis_data, local_cache, local_ttl,
                       hits, misses>>
        /\ UNCHANGED <<now, riskFields, call, breakerFields, serviceFields>>

(***************************************************************************)
(* TradingEngine._rate_limited_call (trading_engine.py)                    *)
(***************************************************************************)
\* config.get("max_concurrent_requests", 10)
MaxConcurrentRequests == 10
\* config.get("min_request_interval", 0.1), in hundredths of a second
MinRequestInterval == 10
\* deque(maxlen=100)
RequestTimestampsMaxLen == 100

\* the most outbound calls of one run
MaxRequests == 3

Requesters == {"market", "orderbook", "order"}

Idle == [pc |-> "idle", wake |-> 0]

LimiterInit ==
    /\ rate_limiter = MaxConcurrentRequests
    /\ request_timestamps = <<>>
    /\ limited = [c \in Requesters |-> Idle]

\* self.request_timestamps.append(time.time()); the call of func starts
StartRequest(c) ==
    /\ request_timestamps' =
           DequeAppend(request_timestamps, now, RequestTimestampsMaxLen)
    /\ limited' = [limited EXCEPT ![c] = [pc |-> "calling", wake |-> 0]]

\* _rate_limited_call, from the semaphore to its first await: the sleep, or
\* the call of func
RateLimitedCall(c) ==
    /\ limited[c].pc = "idle"
    /\ Len(request_timestamps) < MaxRequests
    /\ rate_limiter > 0
    /\ rate_limiter' = rate_limiter - 1
    /\ LET elapsed == now - request_timestamps[Len(request_timestamps)]
       IN  IF request_timestamps /= <<>> /\ elapsed < MinRequestInterval
           THEN /\ limited' =
                       [limited EXCEPT ![c] =
                           [pc |-> "sleeping",
                            wake |-> now + (MinRequestInterval - elapsed)]]
                /\ UNCHANGED request_timestamps
           ELSE StartRequest(c)
    /\ UNCHANGED <<now, riskFields, call, breakerFields, cacheFields, poolFields, tradeFields,
                 scanFields, cycleFields>>

\* asyncio.sleep is over
RateLimitedCallWakes(c) ==
    /\ limited[c].pc = "sleeping"
    /\ now >= limited[c].wake
    /\ StartRequest(c)
    /\ UNCHANGED rate_limiter
    /\ UNCHANGED <<now, riskFields, call, breakerFields, cacheFields, poolFields, tradeFields,
                 scanFields, cycleFields>>

\* func has returned or raised: the semaphore is released
RateLimitedCallEnds(c) ==
    /\ limited[c].pc = "calling"
    /\ limited' = [limited EXCEPT ![c] = Idle]
    /\ rate_limiter' = rate_limiter + 1
    /\ UNCHANGED request_timestamps
    /\ UNCHANGED <<now, riskFields, call, breakerFields, cacheFields, poolFields, tradeFields,
                 scanFields, cycleFields>>

(***************************************************************************)
(* ConnectionPool (trading_engine.py)                                      *)
(***************************************************************************)
\* the pool of the model holds two sessions (the engine's holds five)
max_connections == 2

PoolCallers == {"a", "b", "c", "d"}

NoSession == 0

PoolInit ==
    /\ pool = <<>>
    /\ active_connections = 0
    /\ getters = <<>>
    /\ pooled = [c \in PoolCallers |-> [pc |-> "idle", session |-> NoSession]]
    /\ pool_log = [event |-> "none", caller |-> "none", session |-> NoSession]

\* elif self.active_connections < self.max_connections
UnderMaxInclusive == active_connections <= max_connections

UnderMax == active_connections < max_connections

Holds(c, session, event) ==
    /\ pooled' = [pooled EXCEPT ![c] = [pc |-> "holding", session |-> session]]
    /\ pool_log' = [event |-> event, caller |-> c, session |-> session]

\* pool.get() on an empty queue: the caller joins the waiting getters
WaitsForPool(c, event) ==
    /\ pooled' = [pooled EXCEPT ![c] = [pc |-> "waiting", session |-> NoSession]]
    /\ getters' = Append(getters, c)
    /\ pool_log' = [event |-> event, caller |-> c, session |-> NoSession]
    /\ UNCHANGED <<pool, active_connections>>

\* acquire, up to its return or to the point where pool.get() suspends: the
\* lock is free and the queue is not empty when get is awaited under it, so
\* nothing suspends before
acquire(c) ==
    /\ pooled[c].pc = "idle"
    /\ IF pool /= <<>>
       THEN /\ Holds(c, Head(pool), "idle")
            /\ pool' = Tail(pool)
            /\ UNCHANGED <<active_connections, getters>>
       ELSE IF UnderMax
       THEN /\ active_connections' = active_connections + 1
            /\ Holds(c, active_connections + 1, "created")
            /\ UNCHANGED <<pool, getters>>
       ELSE WaitsForPool(c, "blocked")
    /\ UNCHANGED <<now, riskFields, call, breakerFields, cacheFields, limiterFields, tradeFields,
                 scanFields, cycleFields>>

\* a getter woken by a put runs again: it takes the head of the queue, or
\* waits again when another caller took it first
acquire_resumes(c) ==
    /\ pooled[c].pc = "woken"
    /\ IF pool /= <<>>
       THEN /\ Holds(c, Head(pool), "resumed")
            /\ pool' = Tail(pool)
            /\ UNCHANGED <<active_connections, getters>>
       ELSE WaitsForPool(c, "waits again")
    /\ UNCHANGED <<now, riskFields, call, breakerFields, cacheFields, limiterFields, tradeFields,
                 scanFields, cycleFields>>

\* release: pool.put(session) wakes the first waiting getter
release(c) ==
    /\ pooled[c].pc = "holding"
    /\ Len(pool) < max_connections
    /\ pool' = Append(pool, pooled[c].session)
    /\ IF getters /= <<>>
       THEN /\ getters' = Tail(getters)
            /\ pooled' = [pooled EXCEPT
                              ![c] = [pc |-> "idle", session |-> NoSession],
                              ![Head(getters)].pc = "woken"]
       ELSE /\ pooled' = [pooled EXCEPT
                              ![c] = [pc |-> "idle", session |-> NoSession]]
            /\ UNCHANGED getters
    /\ pool_log' = [event |-> "released", caller |-> c,
                    session |-> pooled[c].session]
    /\ UNCHANGED active_connections
    /\ UNCHANGED <<now, riskFields, call, breakerFields, cacheFields, limiterFields, tradeFields,
                 scanFields, cycleFields>>

(***************************************************************************)
(* TradingEngine.scan_markets_parallel (trading_engine.py)                 *)
(***************************************************************************)
\* four of the engine's seven series, and the market each one lists
target_series == {"FED", "KXINX", "BTC", "ETH"}

ScanTickers == {"T1", "T2", "T3"}

\* self.target_series, in the order the results of gather are extended
SeriesOrder == <<"FED", "KXINX", "BTC", "ETH">>

Market(ticker, status) == [ticker |-> ticker, status |-> status]

\* data.get("markets", []) of a series: T1 is listed twice, T4 is closed,
\* one entry has no ticker
SeriesMarket(s) ==
    CASE s = "FED" -> <<Market("T1", "open")>>
      [] s = "KXINX" -> <<Market("T2", "Active"), Market("", "open")>>
      [] s = "BTC" -> <<Market("T3", "initialized"), Market("T4", "closed")>>
      [] OTHER -> <<Market("T1", "open")>>

\* what the unfiltered fallback request lists
FallbackMarkets == <<Market("T3", "initialized"), Market("T4", "closed")>>

\* str(m.get("status", "")).lower() in ["active", "open", "initialized"]
Tradeable(m) ==
    m.status \in {"active", "open", "initialized", "Active", "Open",
                  "OPEN", "ACTIVE"}

\* the filter loop: a ticker is looked at once, the first time it is listed
RECURSIVE FilterMarkets(_, _)
FilterMarkets(markets, seen_tickers) ==
    IF markets = <<>> THEN <<>>
    ELSE LET m == Head(markets)
         IN  IF m.ticker /= "" /\ m.ticker \notin seen_tickers
             THEN (IF Tradeable(m) THEN <<m>> ELSE <<>>)
                      \o FilterMarkets(Tail(markets),
                                       seen_tickers \cup {m.ticker})
             ELSE FilterMarkets(Tail(markets), seen_tickers)

TickersOf(markets) == {markets[i].ticker : i \in 1..Len(markets)}

\* markets.extend(series_markets) over the results, [] for a series that
\* found nothing
RECURSIVE Extended(_, _)
Extended(order, found) ==
    IF order = <<>> THEN <<>>
    ELSE (IF Head(order) \in found THEN SeriesMarket(Head(order)) ELSE <<>>)
             \o Extended(Tail(order), found)

\* asyncio.Semaphore(3)
MaxSeriesFetches == 3
\* for attempt in range(3)
FetchAttempts == 3
\* if len(markets) < 10
FallbackBelow == 10
\* config.get("scan_cooldown", 15)
scan_cooldown == 15
\* CircuitBreaker(failure_threshold=3, recovery_timeout=60)
ScanFailureThreshold == 3
ScanRecoveryTimeout == 60

\* the most calls of scan_markets_parallel in one run
MaxScans == 4

\* a request to the exchange answers with markets, answers with none, comes
\* back without content, or raises
FetchOutcomes == {"markets", "no markets", "no content", "raises"}

MarketsValue(tickers) ==
    [type |-> "markets", timestamp |-> "none", tickers |-> tickers]

\* if cached_markets: / if cached_opp:
Truthy(value) ==
    /\ value.type /= "None"
    /\ value.type = "markets" => value.tickers /= {}

NoTask == [pc |-> "none", attempt |-> 0, found |-> FALSE]

ScanInit ==
    /\ market_scan_breaker =
           [state |-> "closed", failure_count |-> 0, last_failure_time |-> 0]
    /\ scan = [pc |-> "idle", markets |-> <<>>, returned |-> {},
               listed |-> <<>>, exhausted |-> {},
               outcome |-> "none", failures |-> 0, count |-> 0]
    /\ series = [s \in target_series |-> NoTask]
    /\ scan_semaphore = MaxSeriesFetches

\* async with semaphore: a permit is there to take
SemaphoreOpen(permits) == TRUE

SemaphoreFree(permits) == permits > 0

SeriesInFlight == {s \in target_series : series[s].pc = "fetching"}

\* scan_markets_parallel up to its first suspension: the cached list is
\* returned, or the fetch tasks are gathered
ScanStart(remote) ==
    /\ scan.pc = "idle"
    /\ scan.count < MaxScans
    /\ CacheGet("global_market_cache", remote)
    /\ IF Truthy(cache_log'.result)
       THEN /\ scan' = [scan EXCEPT !.pc = "returned",
                                    !.returned = cache_log'.result.tickers,
                                    !.listed = <<>>,
                                    !.outcome = "cached",
                                    !.count = @ + 1]
            /\ UNCHANGED <<series, scan_semaphore>>
       ELSE /\ scan' = [scan EXCEPT !.pc = "series", !.markets = <<>>,
                                    !.returned = {}, !.listed = <<>>,
                                    !.outcome = "none",
                                    !.count = @ + 1]
            /\ series' = [s \in target_series |->
                             [pc |-> "queued", attempt |-> 0, found |-> FALSE]]
            /\ scan_semaphore' = MaxSeriesFetches
    /\ UNCHANGED market_scan_breaker

\* bounded_fetch takes a permit and fetch_series sends its first request
SeriesFetchStarts(s) ==
    /\ series[s].pc = "queued"
    /\ SemaphoreFree(scan_semaphore)
    /\ scan_semaphore' = scan_semaphore - 1
    /\ series' = [series EXCEPT ![s].pc = "fetching"]
    /\ UNCHANGED <<now, riskFields, call, breakerFields, cacheFields,
                   limiterFields, poolFields, tradeFields, market_scan_breaker, scan,
                   cycleFields>>

\* for attempt in range(3), with one more attempt than the range has
AttemptsLeftInclusive(attempt) == attempt + 1 <= FetchAttempts
\* for attempt in range(3): the attempt answered was not the last
AttemptsLeft(attempt) == attempt + 1 < FetchAttempts

\* one request of fetch_series is answered: the markets are returned, or the
\* task backs off and asks again, up to three times, and then returns []
\* (scan.exhausted notes, for a scan that is called on its own, the series
\* that returned [] in this way)
SeriesFetchAnswers(s, outcome) ==
    /\ series[s].pc = "fetching"
    /\ IF outcome \in {"markets", "no markets"}
       THEN /\ series' = [series EXCEPT ![s] =
                             [pc |-> "done", attempt |-> 0,
                              found |-> (outcome = "markets")]]
            /\ scan_semaphore' = scan_semaphore + 1
            /\ UNCHANGED scan
       ELSE IF AttemptsLeft(series[s].attempt)
       THEN /\ series' = [series EXCEPT ![s].attempt = @ + 1]
            /\ UNCHANGED <<scan_semaphore, scan>>
       ELSE /\ series' = [series EXCEPT ![s] =
                             [pc |-> "done", attempt |-> 0, found |-> FALSE]]
            /\ scan_semaphore' = scan_semaphore + 1
            /\ scan' = [scan EXCEPT !.exhausted =
                                IF cycle.pc = "idle" THEN @ \cup {s} ELSE @]
    /\ UNCHANGED <<now, riskFields, call, breakerFields, cacheFields,
                   limiterFields, poolFields, tradeFields, market_scan_breaker,
                   cycleFields>>

\* the end of scan_markets_parallel: a market whose quote is None makes the
\* enrichment raise, and the scan returns [] from its except clause;
\* otherwise the filtered list is cached and returned
ScanFinish(markets, bad_quote, remote) ==
    LET filtered_markets == FilterMarkets(markets, {})
    IN  IF bad_quote /\ filtered_markets /= <<>>
        THEN /\ scan' = [scan EXCEPT !.pc = "returned", !.returned = {},
                                     !.listed = <<>>, !.markets = <<>>,
                                     !.outcome = "failed",
                                     !.failures = @ + 1]
             /\ UNCHANGED cacheFields
        ELSE /\ CacheSet("global_market_cache",
                         MarketsValue(TickersOf(filtered_markets)),
                         scan_cooldown, remote)
             /\ scan' = [scan EXCEPT !.pc = "returned",
                                     !.returned = TickersOf(filtered_markets),
                                     !.listed = filtered_markets,
                                     !.markets = <<>>,
                                     !.outcome = "scanned", !.failures = 0]

\* asyncio.gather has every list: the fallback request is sent when fewer
\* than ten markets came back
SeriesGathered(bad_quote, remote) ==
    LET found == {s \in target_series : series[s].found}
        markets == Extended(SeriesOrder, found)
    IN  /\ scan.pc = "series"
        /\ \A s \in target_series : series[s].pc = "done"
        /\ IF Len(markets) < FallbackBelow
           THEN /\ scan' = [scan EXCEPT !.pc = "fallback", !.markets = markets]
                /\ UNCHANGED cacheFields
           ELSE ScanFinish(markets, bad_quote, remote)
        /\ series' = [s \in target_series |-> NoTask]
        /\ UNCHANGED <<now, riskFields, call, breakerFields, limiterFields,
                       poolFields, tradeFields, market_scan_breaker, scan_semaphore,
                       cycleFields>>

\* the fallback request is answered (its exception is only logged)
FallbackAnswers(outcome, bad_quote, remote) ==
    /\ scan.pc = "fallback"
    /\ ScanFinish(IF outcome = "markets"
                  THEN scan.markets \o FallbackMarkets ELSE scan.markets,
                  bad_quote, remote)
    /\ UNCHANGED <<now, riskFields, call, breakerFields, limiterFields,
                   poolFields, tradeFields, market_scan_breaker, series, scan_semaphore,
                   cycleFields>>

(***************************************************************************)
(* StrategyManager.analyze_market, TradingEngine.analyze_market_fast and   *)
(* TradingEngine.find_best_opportunities                                   *)
(***************************************************************************)
\* two of the manager's three strategies
strategies == {"FundamentalStrategy", "MomentumStrategy"}

\* the semaphores of the model are narrower than the defaults (5 and 3)
max_concurrent_analysis == 2
max_concurrent_strategies == 1

\* config.get("analysis_cache_ttl", 30)
analysis_cache_ttl == 30

\* the most calls of find_best_opportunities in one run
MaxCycles == 1

\* self.portfolio
EnginePortfolio == [balance |-> FromInt(100), active_value |-> Zero]

OppKey(t) ==
    CASE t = "T1" -> "opp_T1" [] t = "T2" -> "opp_T2" [] OTHER -> "opp_T3"

\* _calculate_mid_price: 0.5 without an order book, else (bid + ask) / 200
OrderbookOutcomes == {"55 bid 65 ask", "raises"}
MidPrice(orderbook) ==
    IF orderbook = "raises" THEN Frac(50, 100) ELSE Frac(60, 100)

\* asdict(opportunity): edge is "positive" for a strategy's signal and "zero"
\* for the default "Pulse" opportunity
OppValue(edge, probability) ==
    [type |-> "opportunity", timestamp |-> "datetime",
     edge |-> edge, probability |-> probability]

NoAnalysis ==
    [pc |-> "none", found |-> FALSE, probability |-> Frac(50, 100),
     edge |-> "none", failed |-> FALSE, raised |-> FALSE]

NoStrategies == [s \in strategies |-> "none"]

CycleInit ==
    /\ cycle = [pc |-> "idle", markets |-> {}, checked |-> {}, opps |-> {},
                ranked |-> <<>>,
                count |-> 0]
    /\ analysis = [t \in ScanTickers |-> NoAnalysis]
    /\ analysis_semaphore = max_concurrent_analysis
    /\ strategy = [t \in ScanTickers |-> NoStrategies]
    /\ strategy_semaphore = [t \in ScanTickers |-> max_concurrent_strategies]

\* the standalone call of scan_markets_parallel
ScanMarketsParallel(remote) ==
    /\ cycle.pc = "idle"
    /\ ScanStart(remote)
    /\ UNCHANGED <<now, riskFields, call, breakerFields, limiterFields,
                   poolFields, tradeFields, cycleFields>>

\* its caller has the list
ScanResultTaken ==
    /\ cycle.pc = "idle"
    /\ scan.pc = "returned"
    /\ scan' = [scan EXCEPT !.pc = "idle", !.listed = <<>>,
                            !.exhausted = {}]
    /\ UNCHANGED <<now, riskFields, call, breakerFields, cacheFields,
                   limiterFields, poolFields, tradeFields, market_scan_breaker, series,
                   scan_semaphore, cycleFields>>

\* find_best_opportunities awaits the scan
FindBestOpportunities(remote) ==
    /\ cycle.pc = "idle"
    /\ cycle.count < MaxCycles
    /\ ScanStart(remote)
    /\ cycle' = [pc |-> "scanning", markets |-> {}, checked |-> {},
                 opps |-> {}, ranked |-> <<>>, count |-> cycle.count + 1]
    /\ analysis' = [t \in ScanTickers |-> NoAnalysis]
    /\ UNCHANGED <<now, riskFields, call, breakerFields, limiterFields,
                   poolFields, tradeFields, analysis_semaphore, strategy,
                   strategy_semaphore>>

\* the scan has returned: [] ends the cycle, otherwise the analyses of the
\* markets are gathered under a new semaphore
AnalysesStart ==
    /\ cycle.pc = "scanning"
    /\ scan.pc = "returned"
    /\ scan' = [scan EXCEPT !.pc = "idle", !.listed = <<>>,
                            !.exhausted = {}]
    /\ IF scan.returned = {}
       THEN /\ cycle' = [cycle EXCEPT !.pc = "returned"]
            /\ UNCHANGED <<analysis, analysis_semaphore>>
       ELSE /\ cycle' = [cycle EXCEPT !.pc = "analysing",
                                      !.markets = scan.returned]
            /\ analysis' = [t \in ScanTickers |->
                               IF t \in scan.returned
                               THEN [NoAnalysis EXCEPT !.pc = "queued"]
                               ELSE NoAnalysis]
            /\ analysis_semaphore' = max_concurrent_analysis
    /\ UNCHANGED <<now, riskFields, call, breakerFields, cacheFields,
                   limiterFields, poolFields, tradeFields, market_scan_breaker, series,
                   scan_semaphore, strategy, strategy_semaphore>>

\* except Exception in analyze_market_fast: the analysis returns None
AnalysisPropagates == FALSE

AnalysisCatches == TRUE

\* the exception of an analysis ends it with None
AnalysisFails(t) ==
    [NoAnalysis EXCEPT !.pc = "done", !.edge = "None", !.failed = TRUE,
                       !.raised = ~AnalysisCatches]

\* bounded_analysis takes a permit and analyze_market_fast awaits cache.get
AnalysisStarts(t) ==
    /\ analysis[t].pc = "queued"
    /\ SemaphoreFree(analysis_semaphore)
    /\ analysis_semaphore' = analysis_semaphore - 1
    /\ analysis' = [analysis EXCEPT ![t].pc = "reading"]
    /\ UNCHANGED <<now, riskFields, call, breakerFields, cacheFields,
                   limiterFields, poolFields, tradeFields, scanFields, cycle, strategy,
                   strategy_semaphore>>

\* cache.get answers: a cached opportunity is returned, otherwise the market
\* and the order book are requested
AnalysisCacheAnswers(t, remote) ==
    /\ analysis[t].pc = "reading"
    /\ CacheGet(OppKey(t), remote)
    /\ IF Truthy(cache_log'.result)
       THEN /\ analysis' = [analysis EXCEPT ![t] =
                   [NoAnalysis EXCEPT
                       !.pc = "done",
                       !.edge = cache_log'.result.edge,
                       !.probability = cache_log'.result.probability]]
            /\ analysis_semaphore' = analysis_semaphore + 1
       ELSE /\ analysis' = [analysis EXCEPT ![t].pc = "fetching"]
            /\ UNCHANGED analysis_semaphore
    /\ UNCHANGED <<now, riskFields, call, breakerFields, limiterFields,
                   poolFields, tradeFields, scanFields, cycle, strategy,
                   strategy_semaphore>>

\* the gather of get_market and get_orderbook returns: without market data
\* the analysis returns None, a payload that is no dict makes it raise, and
\* otherwise the strategies are gathered under a new semaphore
AnalysisFetched(t, market, payload_ok) ==
    /\ analysis[t].pc = "fetching"
    /\ IF market /= "markets"
       THEN /\ analysis' = [analysis EXCEPT ![t] =
                               [NoAnalysis EXCEPT !.pc = "done",
                                                  !.edge = "None"]]
            /\ analysis_semaphore' = analysis_semaphore + 1
            /\ UNCHANGED <<strategy, strategy_semaphore>>
       ELSE IF ~payload_ok
       THEN /\ analysis' = [analysis EXCEPT ![t] = AnalysisFails(t)]
            /\ analysis_semaphore' = analysis_semaphore + 1
            /\ UNCHANGED <<strategy, strategy_semaphore>>
       ELSE /\ analysis' = [analysis EXCEPT ![t].pc = "strategies"]
            /\ strategy' = [strategy EXCEPT
                               ![t] = [s \in strategies |-> "queued"]]
            /\ strategy_semaphore' =
                   [strategy_semaphore EXCEPT ![t] = max_concurrent_strategies]
            /\ UNCHANGED analysis_semaphore
    /\ UNCHANGED <<now, riskFields, call, breakerFields, cacheFields,
                   limiterFields, poolFields, tradeFields, scanFields, cycle>>

StrategiesRunning(t) == {s \in strategies : strategy[t][s] = "running"}

\* run_strategy takes a permit and awaits strategy.analyze_market
StrategyStarts(t, s) ==
    /\ strategy[t][s] = "queued"
    /\ SemaphoreFree(strategy_semaphore[t])
    /\ strategy' = [strategy EXCEPT ![t][s] = "running"]
    /\ strategy_semaphore' = [strategy_semaphore EXCEPT ![t] = @ - 1]
    /\ UNCHANGED <<now, riskFields, call, breakerFields, cacheFields,
                   limiterFields, poolFields, tradeFields, scanFields, cycle, analysis,
                   analysis_semaphore>>

\* the strategy returns an opportunity or None, or raises, which run_strategy
\* logs
StrategyOutcomes == {"opportunity", "None", "raises"}

StrategyEnds(t, s, outcome) ==
    /\ strategy[t][s] = "running"
    /\ strategy' = [strategy EXCEPT ![t][s] = "done"]
    /\ strategy_semaphore' = [strategy_semaphore EXCEPT ![t] = @ + 1]
    /\ analysis' = [analysis EXCEPT ![t].found =
                       @ \/ outcome = "opportunity"]
    /\ UNCHANGED <<now, riskFields, call, breakerFields, cacheFields,
                   limiterFields, poolFields, tradeFields, scanFields, cycle,
                   analysis_semaphore>>

\* every strategy has finished: the best signal, or the default "Pulse"
\* opportunity, gets the mid price of the order book that was fetched as its
\* probability, and is cached and returned
AnalysisEnds(t, orderbook, remote) ==
    LET edge == IF analysis[t].found THEN "positive" ELSE "zero"
    IN  /\ analysis[t].pc = "strategies"
        /\ \A s \in strategies : strategy[t][s] = "done"
        /\ CacheSet(OppKey(t), OppValue(edge, MidPrice(orderbook)),
                    analysis_cache_ttl, remote)
        /\ analysis' = [analysis EXCEPT
                           ![t].pc = "done", ![t].edge = edge,
                           ![t].found = FALSE,
                           ![t].probability = MidPrice(orderbook)]
        /\ analysis_semaphore' = analysis_semaphore + 1
        /\ strategy' = [strategy EXCEPT ![t] = NoStrategies]
        /\ UNCHANGED <<now, riskFields, call, breakerFields, limiterFields,
                       poolFields, tradeFields, scanFields, cycle, strategy_semaphore>>

\* the opportunity the analysis of t returned
\* the edge and the confidence of the best signal the strategies give on
\* each market
MarketEdge(t) ==
    CASE t = "T1" -> FromInt(5) [] t = "T2" -> FromInt(8)
      [] OTHER -> FromInt(3)
MarketConfidence(t) == IF t = "T2" THEN Frac(1, 2) ELSE One

OpportunityOf(t) ==
    [BaseOpp EXCEPT !.ticker = t, !.edge = MarketEdge(t),
                    !.confidence = MarketConfidence(t),
                    !.probability = analysis[t].probability]

\* the most opportunities a cycle returns (the default is 3)
top_n == 2

EdgeKeyOf(t) == MarketEdge(t)
\* key=lambda x: x.edge * x.confidence
RankKeyOf(t) == FMul(MarketEdge(t), MarketConfidence(t))

\* final_opps.sort(key=..., reverse=True)
RECURSIVE SortedByKey(_)
SortedByKey(S) ==
    IF S = {} THEN <<>>
    ELSE LET best == CHOOSE t \in S :
                         \A u \in S : FLe(RankKeyOf(u), RankKeyOf(t))
         IN  <<best>> \o SortedByKey(S \ {best})

\* final_opps[:top_n]
FirstN(xs, n) == SubSeq(xs, 1, IF Len(xs) < n THEN Len(xs) ELSE n)

\* results = await asyncio.gather(...)
SomeAnalysisDone(markets) == \E t \in markets : analysis[t].pc = "done"

AllAnalysesDone(markets) == \A t \in markets : analysis[t].pc = "done"

\* the gather has returned: the opportunities with an edge are sized by the
\* risk manager, those with a size are ranked and returned; an exception
\* anywhere in the cycle makes it return []
RankAndReturn ==
    LET valid_opps == {t \in cycle.markets : analysis[t].edge = "positive"}
        final_opps ==
            {t \in valid_opps :
                check_trade_risk(OpportunityOf(t), EnginePortfolio) > 0}
        raises == \E t \in cycle.markets : analysis[t].raised
        sorted == FirstN(SortedByKey(final_opps), top_n)
        returned ==
            [i \in 1..Len(sorted) |->
                [ticker |-> sorted[i],
                 suggested_size |->
                     check_trade_risk(OpportunityOf(sorted[i]),
                                      EnginePortfolio)]]
    IN  /\ cycle.pc = "analysing"
        /\ AllAnalysesDone(cycle.markets)
        /\ cycle' = [cycle EXCEPT
                        !.pc = "returned",
                        !.checked = IF raises THEN {} ELSE valid_opps,
                        !.opps = IF raises THEN {} ELSE final_opps,
                        !.ranked = IF raises THEN <<>> ELSE returned]
        /\ UNCHANGED <<now, riskFields, call, breakerFields, cacheFields,
                       limiterFields, poolFields, tradeFields, scanFields, analysis,
                       analysis_semaphore, strategy, strategy_semaphore>>

\* the caller has the ranked list
OpportunitiesTaken ==
    /\ cycle.pc = "returned"
    /\ cycle' = [cycle EXCEPT !.pc = "idle"]
    /\ UNCHANGED <<now, riskFields, call, breakerFields, cacheFields,
                   limiterFields, poolFields, tradeFields, scanFields, analysis,
                   analysis_semaphore, strategy, strategy_semaphore>>

(***************************************************************************)
(* TradingEngine.execute_trade_fast (trading_engine.py).  The order goes   *)
(* out through trade_execution_breaker.call(_rate_limited_call, ...): the  *)
(* time an admitted call spends in the limiter and at the venue is one     *)
(* stretch here, which ends when the venue answers or raises.              *)
(***************************************************************************)
\* the most calls of execute_trade_fast in one run
MaxOrders == 7

\* what create_order comes back with: content that parses, content that
\* json_loads rejects, no content
OrderAnswers == {"order", "garbled", "empty"}

NoExecution ==
    [pc |-> "idle", result |-> "none", ticker |-> "none", submitted |-> FALSE,
     price |-> 0]

\* execution_metrics, trade_history = deque(maxlen=1000)
ExecutionInit ==
    /\ execution_metrics = [total_orders |-> 0, filled_orders |-> 0]
    /\ engine_trade_history = <<>>
    /\ price_impact_history = <<>>
    /\ execution = [c \in Callers |-> NoExecution]
    /\ venue = [calls |-> 0, submitted |-> 0, answered |-> 0,
                filled |-> [t \in Tickers |-> 0]]

\* _adjust_price_for_impact: price_impact_history.get(ticker, deque())
adjust_price_for_impact(ticker, price) ==
    LET history == IF ticker \in DOMAIN price_impact_history
                   THEN price_impact_history[ticker] ELSE <<>>
    IN  IF Len(history) > 5 THEN FMin(FromInt(99), FAdd(price, One))
        ELSE price

\* f"{side}_price": int(adjusted_price)
LimitPrice(o) == PyInt(adjust_price_for_impact(o.ticker, o.entry_price))

ExecutionPropagates == FALSE
\* except Exception: ... return False
ExecutionCatches == TRUE

\* what the caller of execute_trade_fast gets when the body raised
AfterException(e) ==
    IF ExecutionCatches
    THEN [e EXCEPT !.pc = "returned", !.result = "False"]
    ELSE [e EXCEPT !.pc = "raised"]

\* the breaker raises CircuitBreakerOpen instead of calling func
BreakerRejects == state = "open" /\ ~RecoveryElapsed

\* execute_trade_fast, to the await of the order: the breaker lets the call
\* in, or raises CircuitBreakerOpen, which is caught and answered by False
ExecuteTradeFast(c, o) ==
    /\ execution[c].pc = "idle"
    /\ venue.calls < MaxOrders
    /\ CallAdmission(c)
    /\ IF BreakerRejects
       THEN /\ execution' =
                   [execution EXCEPT ![c] =
                       [pc |-> "returned", result |-> "False",
                        ticker |-> o.ticker, submitted |-> FALSE,
                        price |-> LimitPrice(o)]]
            /\ venue' = [venue EXCEPT !.calls = @ + 1]
       ELSE /\ execution' =
                   [execution EXCEPT ![c] =
                       [pc |-> "ordering", result |-> "none",
                        ticker |-> o.ticker, submitted |-> TRUE,
                        price |-> LimitPrice(o)]]
            /\ venue' = [venue EXCEPT !.calls = @ + 1, !.submitted = @ + 1]
    /\ UNCHANGED <<execution_metrics, engine_trade_history, price_impact_history, signalFields, managerFields,
                   objectFields>>
    /\ UNCHANGED <<now, riskFields, call, cacheFields, limiterFields,
                   poolFields, scanFields, cycleFields>>

\* the order came back: total_orders += 1, then filled_orders += 1 and True
\* when the answer has content that parses
OrderReturns(c, answer) ==
    /\ execution[c].pc = "ordering"
    /\ CallReturned(c)
    /\ venue' = [venue EXCEPT !.answered = @ + 1,
                              !.filled[execution[c].ticker] =
                                  @ + IF answer = "order" THEN 1 ELSE 0]
    /\ execution_metrics' =
           [total_orders |-> execution_metrics.total_orders + 1,
            filled_orders |-> execution_metrics.filled_orders
                                  + IF answer = "order" THEN 1 ELSE 0]
    /\ execution' =
           [execution EXCEPT ![c] =
               IF answer = "order"
               THEN [@ EXCEPT !.pc = "returned", !.result = "True"]
               ELSE IF answer = "garbled"
               THEN AfterException(@)
               ELSE [@ EXCEPT !.pc = "returned", !.result = "False"]]
    /\ UNCHANGED <<engine_trade_history, price_impact_history, signalFields, managerFields,
                   objectFields>>
    /\ UNCHANGED <<now, riskFields, call, cacheFields, limiterFields,
                   poolFields, scanFields, cycleFields>>

\* the order raised: the breaker books the failure and raises it again
OrderRaises(c) ==
    /\ execution[c].pc = "ordering"
    /\ CallRaised(c)
    /\ execution' = [execution EXCEPT ![c] = AfterException(@)]
    /\ UNCHANGED <<execution_metrics, engine_trade_history, price_impact_history, venue, signalFields, managerFields,
                   objectFields>>
    /\ UNCHANGED <<now, riskFields, call, cacheFields, limiterFields,
                   poolFields, scanFields, cycleFields>>

\* the caller has the return value of execute_trade_fast
ExecutionTaken(c) ==
    /\ execution[c].pc = "returned"
    /\ execution' = [execution EXCEPT ![c] = NoExecution]
    /\ UNCHANGED <<execution_metrics, engine_trade_history, price_impact_history, venue, signalFields, managerFields,
                   objectFields>>
    /\ UNCHANGED <<now, riskFields, call, breakerFields, cacheFields,
                   limiterFields, poolFields, scanFields, cycleFields>>

(***************************************************************************)
(* MarketOpportunity.__post_init__ (models.py) and                         *)
(* StrategyManager.aggregate_signals (strategies/manager.py)               *)
(***************************************************************************)
\* float("nan"), float("inf"), float("-inf")
NaN == [n |-> 0, d |-> 0]
Inf == [n |-> 1, d |-> 0]
NegInf == [n |-> -1, d |-> 0]

\* a < b on floats: every comparison with nan is False
PyLt(a, b) ==
    IF a = NaN \/ b = NaN THEN FALSE
    ELSE IF a.d = 0 /\ b.d = 0 THEN a.n < b.n
    ELSE a.n * b.d < b.n * a.d

\* max(a, b) and min(a, b): the first argument unless the second beats it
PyMax(a, b) == IF PyLt(a, b) THEN b ELSE a
PyMin(a, b) == IF PyLt(b, a) THEN b ELSE a

\* min(1.0, x) alone
ClampAbove(x) == PyMin(One, x)

\* max(0.0, min(1.0, x))
Clamp01(x) == PyMax(Zero, PyMin(One, x))

\* str(side).lower() for the spellings a caller may pass
Lower(side) ==
    IF side \in {"yes", "YES", "Yes"} THEN "yes"
    ELSE IF side \in {"no", "NO", "No"} THEN "no"
    ELSE side

\* __post_init__ on an opportunity whose suggested_size is an int already
post_init(o) ==
    [o EXCEPT !.confidence = Clamp01(o.confidence),
              !.probability = Clamp01(o.probability),
              !.liquidity_score = Clamp01(o.liquidity_score),
              !.side = IF Lower(o.side) \in {"yes", "no"}
                       THEN Lower(o.side) ELSE "yes",
              !.edge = PyMax(Zero, o.edge),
              !.entry_price = PyMax(Zero, PyMin(FromInt(100), o.entry_price)),
              !.suggested_size = IF o.suggested_size > 0
                                 THEN o.suggested_size ELSE 0]

\* score = edge * confidence * liquidity_score
score(o) == FMul(FMul(o.edge, o.confidence), o.liquidity_score)

RECURSIVE FSum(_)
FSum(xs) == IF xs = <<>> THEN Zero ELSE FAdd(Head(xs), FSum(Tail(xs)))

\* the size of the first signal
FirstSize(xs) == xs[1].suggested_size

\* max(s.suggested_size for s in signals)
RECURSIVE MaxSize(_)
MaxSize(xs) ==
    IF Len(xs) = 1 THEN xs[1].suggested_size
    ELSE LET rest == MaxSize(Tail(xs))
         IN  IF xs[1].suggested_size >= rest THEN xs[1].suggested_size
             ELSE rest

\* max(opportunities, key=score): the first of the highest
RECURSIVE MaxByScore(_)
MaxByScore(xs) ==
    IF Len(xs) = 1 THEN xs[1]
    ELSE LET rest == MaxByScore(Tail(xs))
         IN  IF FLt(score(xs[1]), score(rest)) THEN rest ELSE xs[1]

Confidences(xs) == [i \in 1..Len(xs) |-> xs[i].confidence]
WeightedBy(xs, F(_)) ==
    [i \in 1..Len(xs) |-> FMul(F(xs[i]), xs[i].confidence)]
EdgeOf(o) == o.edge
PriceOf(o) == o.entry_price
ProbabilityOf(o) == o.probability

SideOnly(xs, side) == SelectSeq(xs, LAMBDA o : o.side = side)

Returned(o) == [outcome |-> "opportunity", value |-> o]
ReturnedNone == [outcome |-> "None", value |-> BaseOpp]
Raised(error) == [outcome |-> error, value |-> BaseOpp]
NotAggregated == [outcome |-> "not called", value |-> BaseOpp]

\* _create_consensus_opportunity: the division by total_weight raises
\* ZeroDivisionError when every signal has confidence 0
create_consensus_opportunity(sigs, side) ==
    LET total_weight == FSum(Confidences(sigs))
        count == FromInt(Len(sigs))
        weighted_edge == FDiv(FSum(WeightedBy(sigs, EdgeOf)), total_weight)
        weighted_confidence ==
            FMin(FMul(FDiv(FSum(Confidences(sigs)), count), Frac(12, 10)),
                 One)
        weighted_price ==
            FDiv(FSum(WeightedBy(sigs, PriceOf)), total_weight)
        weighted_prob ==
            FDiv(FSum(WeightedBy(sigs, ProbabilityOf)), total_weight)
        avg_liquidity ==
            FDiv(FSum([i \in 1..Len(sigs) |-> sigs[i].liquidity_score]),
                 count)
        base == sigs[1]
    IN  IF total_weight = Zero
        THEN Raised("ZeroDivisionError")
        ELSE Returned(post_init(
                 [ticker |-> base.ticker,
                  edge |-> FMul(weighted_edge, Frac(11, 10)),
                  confidence |-> weighted_confidence,
                  side |-> side,
                  entry_price |-> weighted_price,
                  suggested_size |-> MaxSize(sigs),
                  liquidity_score |-> avg_liquidity,
                  probability |-> IF side = "yes" THEN weighted_prob
                                  ELSE FSub(One, weighted_prob),
                  correlation_group |-> base.correlation_group]))

aggregate_signals(opportunities) ==
    LET yes_signals == SideOnly(opportunities, "yes")
        no_signals == SideOnly(opportunities, "no")
    IN  IF opportunities = <<>> THEN ReturnedNone
        ELSE IF Len(opportunities) = 1 THEN Returned(opportunities[1])
        ELSE IF Len(yes_signals) >= 2 /\ Len(no_signals) = 0
        THEN create_consensus_opportunity(yes_signals, "yes")
        ELSE IF Len(no_signals) >= 2 /\ Len(yes_signals) = 0
        THEN create_consensus_opportunity(no_signals, "no")
        ELSE Returned(MaxByScore(opportunities))

\* the opportunities the strategies of one market hand back
Signal(side, edge, confidence, price, size, liquidity) ==
    [BaseOpp EXCEPT !.side = side, !.edge = edge, !.confidence = confidence,
                    !.entry_price = FromInt(price), !.suggested_size = size,
                    !.liquidity_score = liquidity]

SignalValues ==
    { Signal("yes", FromInt(5), One, 50, 10, One),
      Signal("yes", FromInt(7), One, 40, 3, One),
      Signal("yes", FromInt(9), One, 60, 20, One),
      Signal("yes", FromInt(9), Frac(1, 2), 30, 5, Frac(1, 2)),
      Signal("yes", FromInt(8), Zero, 45, 7, One),
      Signal("no", FromInt(5), Zero, 55, 4, One),
      Signal("no", FromInt(6), One, 58, 2, One),
      Signal("no", FromInt(3), Frac(1, 2), 70, 9, Frac(1, 2)) }

\* the most strategies that answer for one market
MaxSignals == 3

SignalInit ==
    /\ signals = <<>>
    /\ aggregated = NotAggregated

\* the list of opportunities to aggregate grows by one
StrategyAnswers(o) ==
    /\ aggregated = NotAggregated
    /\ Len(signals) < MaxSignals
    /\ signals' = Append(signals, o)
    /\ UNCHANGED aggregated
    /\ UNCHANGED <<execution_metrics, engine_trade_history, price_impact_history, execution, venue,
                   managerFields, objectFields>>
    /\ UNCHANGED <<now, riskFields, call, breakerFields, cacheFields,
                   limiterFields, poolFields, scanFields, cycleFields>>

\* the caller turns to the next market
NextMarket ==
    /\ aggregated /= NotAggregated
    /\ signals' = <<>>
    /\ aggregated' = NotAggregated
    /\ UNCHANGED <<execution_metrics, engine_trade_history, price_impact_history, execution, venue,
                   managerFields, objectFields>>
    /\ UNCHANGED <<now, riskFields, call, breakerFields, cacheFields,
                   limiterFields, poolFields, scanFields, cycleFields>>

\* aggregate_signals(opportunities) is called on them
AggregateSignals ==
    /\ aggregated = NotAggregated
    /\ aggregated' = aggregate_signals(signals)
    /\ UNCHANGED signals
    /\ UNCHANGED <<execution_metrics, engine_trade_history, price_impact_history, execution, venue,
                   managerFields, objectFields>>
    /\ UNCHANGED <<now, riskFields, call, breakerFields, cacheFields,
                   limiterFields, poolFields, scanFields, cycleFields>>

(***************************************************************************)
(* StrategyManager.analyze_market (strategies/manager.py): the run of each *)
(* strategy and the list of opportunities the call returns                 *)
(***************************************************************************)
\* self.strategies, in the order of __init__
AllStrategies ==
    <<"FundamentalStrategy", "SentimentStrategy", "MomentumStrategy">>

strategy_weights ==
    [FundamentalStrategy |-> One, SentimentStrategy |-> Frac(8, 10),
     MomentumStrategy |-> Frac(9, 10)]

\* what a strategy may hand back
StrategyOpps ==
    { Signal("yes", FromInt(5), One, 50, 10, One),
      Signal("no", FromInt(6), Frac(1, 2), 58, 2, One) }

\* opp.edge * weight, min(1.0, opp.confidence * weight)
Weighted(o, name) ==
    [o EXCEPT !.edge = FMul(o.edge, strategy_weights[name]),
              !.confidence = FMin(One, FMul(o.confidence,
                                            strategy_weights[name]))]

NoRun == [pc |-> "idle", outcome |-> "none", result |-> "None", opp |-> BaseOpp]

ManagerInit ==
    /\ manager = [pc |-> "idle", opportunities |-> <<>>]
    /\ runs = [i \in DOMAIN AllStrategies |-> NoRun]

\* the results of the gather that carry an opportunity, in the order of the
\* strategies, or nothing at all if a strategy raised
RECURSIVE CollectedUnlessRaised(_)
CollectedUnlessRaised(rs) ==
    IF \E i \in DOMAIN rs : rs[i].outcome = "raises" THEN <<>>
    ELSE IF rs = <<>> THEN <<>>
    ELSE IF rs[1].result = "opportunity"
    THEN <<rs[1].opp>> \o CollectedUnlessRaised(Tail(rs))
    ELSE CollectedUnlessRaised(Tail(rs))

\* for result in results: an exception is logged, None is skipped, an
\* opportunity is appended
RECURSIVE Collected(_)
Collected(rs) ==
    IF rs = <<>> THEN <<>>
    ELSE IF rs[1].result = "opportunity"
    THEN <<rs[1].opp>> \o Collected(Tail(rs))
    ELSE Collected(Tail(rs))

RunsInFlight == {i \in DOMAIN AllStrategies : runs[i].pc = "running"}

\* analyze_market, to the gather: one task per strategy
AnalyzeMarket ==
    /\ manager.pc = "idle"
    /\ manager' = [pc |-> "gathering", opportunities |-> <<>>]
    /\ runs' = [i \in DOMAIN AllStrategies |-> [NoRun EXCEPT !.pc = "queued"]]
    /\ UNCHANGED <<execution_metrics, engine_trade_history, price_impact_history, execution, venue,
                   signalFields, objectFields>>
    /\ UNCHANGED <<now, riskFields, call, breakerFields, cacheFields,
                   limiterFields, poolFields, scanFields, cycleFields>>

\* run_strategy takes a permit of the call's semaphore and awaits the
\* strategy
RunStrategy(i) ==
    /\ runs[i].pc = "queued"
    /\ SemaphoreFree(max_concurrent_strategies - Cardinality(RunsInFlight))
    /\ runs' = [runs EXCEPT ![i].pc = "running"]
    /\ UNCHANGED manager
    /\ UNCHANGED <<execution_metrics, engine_trade_history, price_impact_history, execution, venue,
                   signalFields, objectFields>>
    /\ UNCHANGED <<now, riskFields, call, breakerFields, cacheFields,
                   limiterFields, poolFields, scanFields, cycleFields>>

\* the strategy returned an opportunity, which is weighted, or None, or it
\* raised, which run_strategy logs and answers by None
RunStrategyEnds(i, outcome, o) ==
    /\ runs[i].pc = "running"
    /\ runs' = [runs EXCEPT ![i] =
                   [pc |-> "done", outcome |-> outcome,
                    result |-> IF outcome = "raises" THEN "None" ELSE outcome,
                    opp |-> IF outcome = "opportunity"
                            THEN Weighted(o, AllStrategies[i]) ELSE BaseOpp]]
    /\ UNCHANGED manager
    /\ UNCHANGED <<execution_metrics, engine_trade_history, price_impact_history, execution, venue,
                   signalFields, objectFields>>
    /\ UNCHANGED <<now, riskFields, call, breakerFields, cacheFields,
                   limiterFields, poolFields, scanFields, cycleFields>>

\* the gather is over: analyze_market returns the opportunities
AnalyzeMarketReturns ==
    /\ manager.pc = "gathering"
    /\ \A i \in DOMAIN AllStrategies : runs[i].pc = "done"
    /\ manager' = [pc |-> "returned", opportunities |-> Collected(runs)]
    /\ UNCHANGED runs
    /\ UNCHANGED <<execution_metrics, engine_trade_history, price_impact_history, execution, venue,
                   signalFields, objectFields>>
    /\ UNCHANGED <<now, riskFields, call, breakerFields, cacheFields,
                   limiterFields, poolFields, scanFields, cycleFields>>

\* the caller has the list
AnalyzeMarketTaken ==
    /\ manager.pc = "returned"
    /\ manager' = [pc |-> "idle", opportunities |-> <<>>]
    /\ runs' = [i \in DOMAIN AllStrategies |-> NoRun]
    /\ UNCHANGED <<execution_metrics, engine_trade_history, price_impact_history, execution, venue,
                   signalFields, objectFields>>
    /\ UNCHANGED <<now, riskFields, call, breakerFields, cacheFields,
                   limiterFields, poolFields, scanFields, cycleFields>>

(***************************************************************************)
(* One market from its data to an order: FundamentalStrategy.analyze_market *)
(* (strategies/fundamental.py), the weighting of run_strategy, the         *)
(* opportunity of analyze_market_fast and the sizing of                    *)
(* find_best_opportunities (trading_engine.py)                             *)
(***************************************************************************)
\* FundamentalStrategy(): min_edge, min_liquidity, max_spread_pct,
\* confidence_boost_factor
fundamental ==
    [min_edge |-> Frac(1, 10), min_liquidity |-> Frac(1, 100),
     max_spread_pct |-> Frac(5, 100), confidence_boost_factor |-> Frac(15, 10)]

\* market dicts, prices in cents; 0 stands for a missing key
MarketDicts ==
    { [ticker |-> "T1", yes_bid |-> yb, yes_ask |-> ya, no_ask |-> na,
       last_price |-> lp, volume |-> v] :
        yb \in {0, 40, 60}, ya \in {0, 42, 62}, na \in {0, 39, 58},
        lp \in {0, 41, 75}, v \in {0, 5000, 20000} }

\* order books with one level a side, or none
NoBook == [present |-> FALSE, bid |-> 0, ask |-> 0, bid_count |-> 0,
           ask_count |-> 0]
Orderbooks ==
    { NoBook,
      [present |-> TRUE, bid |-> 40, ask |-> 42, bid_count |-> 50,
       ask_count |-> 50],
      [present |-> TRUE, bid |-> 40, ask |-> 42, bid_count |-> 10,
       ask_count |-> 90],
      [present |-> TRUE, bid |-> 64, ask |-> 66, bid_count |-> 50,
       ask_count |-> 50] }

\* _extract_market_data: float(market.get(key, default) or default)
extract_market_data(market) ==
    [ticker |-> market.ticker,
     yes_bid |-> FromInt(market.yes_bid),
     yes_ask |-> FromInt(IF market.yes_ask = 0 THEN 100 ELSE market.yes_ask),
     no_ask |-> FromInt(IF market.no_ask = 0 THEN 100 ELSE market.no_ask),
     volume |-> FromInt(market.volume),
     last_price |-> FromInt(IF market.last_price = 0 THEN 50
                            ELSE market.last_price)]

\* MarketData.mid_price and MarketData.spread
DataMidPrice(md) ==
    IF FLt(Zero, md.yes_bid) /\ FLt(Zero, md.yes_ask)
    THEN FDiv(FAdd(md.yes_bid, md.yes_ask), FromInt(200))
    ELSE IF FLt(Zero, md.last_price) THEN FDiv(md.last_price, FromInt(100))
    ELSE Frac(1, 2)
DataSpread(md) ==
    IF FLt(Zero, md.yes_bid) /\ FLt(Zero, md.yes_ask)
    THEN FSub(md.yes_ask, md.yes_bid) ELSE Zero

calculate_fair_probability(md, orderbook) ==
    LET total_vol == orderbook.bid_count + orderbook.ask_count
        imbalance ==
            IF orderbook.present /\ total_vol > 0
            THEN FMul(FSub(Frac(orderbook.bid_count, total_vol), Frac(1, 2)),
                      Frac(4, 10))
            ELSE Zero
        fair_prob ==
            FMax(Frac(1, 100),
                 FMin(Frac(99, 100), FAdd(DataMidPrice(md), imbalance)))
    IN  IF FLt(Zero, md.last_price)
        THEN FAdd(FMul(Frac(7, 10), fair_prob),
                  FMul(Frac(3, 10), FDiv(md.last_price, FromInt(100))))
        ELSE fair_prob

calculate_confidence(md, spread_pct, fair_prob) ==
    LET spread_factor ==
            FSub(One, FMin(FMul(spread_pct, FromInt(5)), Frac(1, 2)))
        liquidity_factor == FMin(FDiv(md.volume, FromInt(10000)), One)
        prob_distance == FMul(FAbs(FSub(fair_prob, Frac(1, 2))), FromInt(2))
        confidence ==
            FMul(FMul(FMul(spread_factor, liquidity_factor), prob_distance),
                 fundamental.confidence_boost_factor)
    IN  FMin(FMax(confidence, Zero), One)

calculate_liquidity_score(md, orderbook) ==
    LET volume_score == FMin(FDiv(md.volume, FromInt(5000)), One)
        depth_score ==
            IF orderbook.present
            THEN FMin(Frac(orderbook.bid_count + orderbook.ask_count, 100),
                      One)
            ELSE Zero
    IN  FAdd(FMul(Frac(6, 10), volume_score), FMul(Frac(4, 10), depth_score))

\* the complement of the estimate, for a signal on no
OwnSideProbability(side, fair_prob) ==
    IF side = "yes" THEN fair_prob ELSE FSub(One, fair_prob)

\* FundamentalStrategy.analyze_market
fundamental_analyze_market(market, orderbook) ==
    LET md == extract_market_data(market)
        spread_pct ==
            IF FLt(Zero, md.yes_bid) THEN FDiv(DataSpread(md), FromInt(100))
            ELSE One
        fair_prob == calculate_fair_probability(md, orderbook)
        yes_edge == FSub(FMul(fair_prob, FromInt(100)), md.yes_ask)
        no_edge ==
            FSub(FMul(FSub(One, fair_prob), FromInt(100)), md.no_ask)
        best_side ==
            IF FLt(no_edge, yes_edge) /\ FLe(fundamental.min_edge, yes_edge)
            THEN "yes"
            ELSE IF FLt(yes_edge, no_edge)
                    /\ FLe(fundamental.min_edge, no_edge)
            THEN "no" ELSE "yes"
        best_edge ==
            IF best_side = "no" THEN no_edge ELSE FMax(yes_edge, no_edge)
        liquidity_score == calculate_liquidity_score(md, orderbook)
    IN  IF FLt(fundamental.max_spread_pct, spread_pct) THEN ReturnedNone
        ELSE IF FLt(best_edge, fundamental.min_edge) THEN ReturnedNone
        ELSE IF FLt(liquidity_score, fundamental.min_liquidity)
        THEN ReturnedNone
        ELSE Returned(post_init(
                 [ticker |-> market.ticker, edge |-> best_edge,
                  confidence |->
                      calculate_confidence(md, spread_pct, fair_prob),
                  side |-> best_side,
                  entry_price |-> IF best_side = "yes" THEN md.yes_ask
                                  ELSE md.no_ask,
                  suggested_size |-> 1,
                  liquidity_score |-> liquidity_score,
                  probability |-> OwnSideProbability(best_side, fair_prob),
                  correlation_group |-> "general"]))

\* TradingEngine._calculate_mid_price
calculate_mid_price(orderbook) ==
    IF ~orderbook.present THEN Frac(1, 2)
    ELSE Frac(orderbook.bid + orderbook.ask, 200)

\* the default opportunity of analyze_market_fast
PulseOpp(ticker, mid_price) ==
    post_init([ticker |-> ticker, edge |-> Zero, confidence |-> Zero,
               side |-> "yes",
               entry_price |-> FMul(mid_price, FromInt(100)),
               suggested_size |-> 0, liquidity_score |-> Frac(1, 2),
               probability |-> mid_price, correlation_group |-> "general"])

\* analyze_market_fast with the fundamental strategy as the manager's only
\* one: the strategy's weighted signal, or the default opportunity, with
\* probability set to the mid price of the order book
analyze_market_fast(market, orderbook) ==
    LET signal == fundamental_analyze_market(market, orderbook)
        mid_price == calculate_mid_price(orderbook)
    IN  IF signal.outcome = "opportunity"
        THEN [Weighted(signal.value, "FundamentalStrategy")
                 EXCEPT !.probability = mid_price]
        ELSE PulseOpp(market.ticker, mid_price)

PipelineInit == pipeline = [stage |-> "idle"]

\* the analysis of one market has returned its opportunity
PipelineAnalyses(market, orderbook) ==
    /\ pipeline.stage = "idle"
    /\ pipeline' =
           [stage |-> "analysed", market |-> market, orderbook |-> orderbook,
            signal |-> fundamental_analyze_market(market, orderbook),
            opportunity |-> analyze_market_fast(market, orderbook),
            size |-> 0]
    /\ UNCHANGED <<constructed, newsFields, bridgeFields>>
    /\ UNCHANGED <<execution_metrics, engine_trade_history, price_impact_history, execution, venue,
                   signalFields, managerFields>>
    /\ UNCHANGED <<now, riskFields, call, breakerFields, cacheFields,
                   limiterFields, poolFields, scanFields, cycleFields>>

\* find_best_opportunities: an opportunity with an edge is handed to
\* check_trade_risk and kept when its size is above 0
PipelineSizes ==
    /\ pipeline.stage = "analysed"
    /\ pipeline' =
           IF FLt(Zero, pipeline.opportunity.edge)
           THEN LET size == check_trade_risk(pipeline.opportunity,
                                             EnginePortfolio)
                IN  [pipeline EXCEPT
                        !.stage = IF size > 0 THEN "sized" ELSE "rejected",
                        !.size = size,
                        !.opportunity.suggested_size =
                            IF size > 0 THEN size ELSE @]
           ELSE [pipeline EXCEPT !.stage = "no edge"]
    /\ UNCHANGED <<constructed, newsFields, bridgeFields>>
    /\ UNCHANGED <<execution_metrics, engine_trade_history, price_impact_history, execution, venue,
                   signalFields, managerFields>>
    /\ UNCHANGED <<now, riskFields, call, breakerFields, cacheFields,
                   limiterFields, poolFields, scanFields, cycleFields>>

\* the caller goes on to the next market
PipelineEnds ==
    /\ pipeline.stage \in {"sized", "rejected", "no edge"}
    /\ \A c \in Callers : execution[c].pc = "idle"
    /\ pipeline' = [stage |-> "idle"]
    /\ UNCHANGED <<constructed, newsFields, bridgeFields>>
    /\ UNCHANGED <<execution_metrics, engine_trade_history, price_impact_history, execution, venue,
                   signalFields, managerFields>>
    /\ UNCHANGED <<now, riskFields, call, breakerFields, cacheFields,
                   limiterFields, poolFields, scanFields, cycleFields>>

(***************************************************************************)
(* MarketOpportunity(...) with arbitrary arguments (models.py)             *)
(***************************************************************************)
RawNumbers ==
    { Frac(-1, 2), Zero, Frac(1, 2), One, Frac(27, 10), FromInt(50),
      FromInt(150), NaN, Inf, NegInf }

RawSides == {"yes", "YES", "No", "no", "maybe", ""}

\* the arguments of a construction: every number for edge and
\* suggested_size, narrower sets for the fields that are clamped alike
RawOpps ==
    { [BaseOpp EXCEPT !.confidence = c, !.probability = pr,
                      !.liquidity_score = pr, !.entry_price = ep,
                      !.edge = ed, !.suggested_size = sz, !.side = sd] :
        c \in RawNumbers, pr \in {Frac(-1, 2), Frac(1, 2), NaN},
        ep \in {Frac(-1, 2), FromInt(50), FromInt(150), NaN, Inf},
        ed \in {Frac(-1, 2), Frac(27, 10), NaN, Inf},
        sz \in {Frac(-1, 2), Frac(27, 10), FromInt(50), NaN, Inf},
        sd \in RawSides }

NotConstructed == [outcome |-> "not called", value |-> BaseOpp]

ObjectInit == constructed = NotConstructed

\* MarketOpportunity(...): int(self.suggested_size) raises ValueError on
\* nan and OverflowError on an infinity, and truncates otherwise
MarketOpportunity(raw) ==
    IF raw.suggested_size = NaN THEN Raised("ValueError")
    ELSE IF raw.suggested_size.d = 0 THEN Raised("OverflowError")
    ELSE Returned(post_init([raw EXCEPT !.suggested_size = PyInt(@)]))

Construct(raw) ==
    /\ constructed = NotConstructed
    /\ constructed' = MarketOpportunity(raw)
    /\ UNCHANGED <<pipeline, newsFields, bridgeFields>>
    /\ UNCHANGED <<execution_metrics, engine_trade_history, price_impact_history, execution, venue,
                   signalFields, managerFields>>
    /\ UNCHANGED <<now, riskFields, call, breakerFields, cacheFields,
                   limiterFields, poolFields, scanFields, cycleFields>>

\* the caller drops the object
Discard ==
    /\ constructed /= NotConstructed
    /\ constructed' = NotConstructed
    /\ UNCHANGED <<pipeline, newsFields, bridgeFields>>
    /\ UNCHANGED <<execution_metrics, engine_trade_history, price_impact_history, execution, venue,
                   signalFields, managerFields>>
    /\ UNCHANGED <<now, riskFields, call, breakerFields, cacheFields,
                   limiterFields, poolFields, scanFields, cycleFields>>

(***************************************************************************)
(* SentimentStrategy._update_news (strategies/sentiment.py)                *)
(***************************************************************************)
\* (now - self.last_update).total_seconds() < 600
StalenessSeconds == 600
\* len(self.feeds)
FeedCount == 3

\* datetime.datetime.min: further back than the window at any reading
datetime_min == 0 - StalenessSeconds

\* the most rounds of feed requests in one run
MaxRounds == 3

\* what a feed request comes back with
FeedOutcomes == {"items", "no items", "raises"}

NoNewsTask == [pc |-> "idle", feed |-> 0, new_items |-> FALSE, now |-> 0]

NewsInit ==
    /\ sentiment = [last_update |-> datetime_min, updating |-> FALSE,
                    news_cache |-> FALSE]
    /\ news_tasks = [c \in Callers |-> NoNewsTask]
    /\ news_log = [rounds |-> 0, started_at |-> datetime_min]

\* the cache is fresh, or another round is in flight: return
UpdateSkipped(t) ==
    \/ t - sentiment.last_update < StalenessSeconds
    \/ sentiment.updating

\* analyze_market awaits _update_news, which returns at once or sets
\* _updating and sends the request for the first feed
UpdateNews(c) ==
    /\ news_tasks[c].pc = "idle"
    /\ news_log.rounds < MaxRounds
    /\ IF UpdateSkipped(now)
       THEN UNCHANGED newsFields
       ELSE /\ sentiment' = [sentiment EXCEPT !.updating = TRUE]
            /\ news_tasks' = [news_tasks EXCEPT ![c] =
                                 [pc |-> "fetching", feed |-> 1,
                                  new_items |-> FALSE, now |-> now]]
            /\ news_log' = [rounds |-> news_log.rounds + 1,
                            started_at |-> now]
    /\ call' = CallOf("_update_news", BaseOpp, NoPortfolio, 0, FALSE)
    /\ UNCHANGED <<constructed, pipeline, bridgeFields>>
    /\ UNCHANGED <<execution_metrics, engine_trade_history,
                   price_impact_history, execution, venue, signalFields,
                   managerFields>>
    /\ UNCHANGED <<now, riskFields, breakerFields, cacheFields,
                   limiterFields, poolFields, scanFields, cycleFields>>

\* the request for a feed is answered; after the last feed the cache and
\* last_update are set if any item came, and _updating is cleared
FeedAnswers(c, outcome) ==
    LET task == news_tasks[c]
        new_items == task.new_items \/ outcome = "items"
    IN  /\ task.pc = "fetching"
        /\ IF task.feed < FeedCount
           THEN /\ news_tasks' = [news_tasks EXCEPT ![c].feed = @ + 1,
                                                    ![c].new_items = new_items]
                /\ UNCHANGED sentiment
           ELSE /\ news_tasks' = [news_tasks EXCEPT ![c] = NoNewsTask]
                /\ sentiment' =
                       IF new_items
                       THEN [last_update |-> task.now, updating |-> FALSE,
                             news_cache |-> TRUE]
                       ELSE [sentiment EXCEPT !.updating = FALSE]
        /\ UNCHANGED news_log
        /\ call' = CallOf("fetch_rss_feed", BaseOpp, NoPortfolio, 0, FALSE)
        /\ UNCHANGED <<constructed, pipeline, bridgeFields>>
        /\ UNCHANGED <<execution_metrics, engine_trade_history,
                       price_impact_history, execution, venue, signalFields,
                       managerFields>>
        /\ UNCHANGED <<now, riskFields, breakerFields, cacheFields,
                       limiterFields, poolFields, scanFields, cycleFields>>

\* ---- WebSocketBridge: the control commands and the trading-loop task ----

Clients == {"c1", "c2"}

MaxCommands == 4

\* a task is "created" until it first runs, "running" while it is in the
\* loop, "cancelling" from cancel() until the CancelledError is raised in
\* it, and then "cancelled"; "finished" once the loop condition failed
TaskDone(s) == s \in {"cancelled", "finished"}

NoHandler == [pc |-> "idle", cmd |-> "none"]

\* __init__: bot_state is STANDBY and trading_task is None (0)
BridgeInit ==
    bridge = [bot_state |-> "STANDBY", trading_task |-> 0, tasks |-> <<>>,
              handlers |-> [c \in Clients |-> NoHandler], commands |-> 0]

BridgeFrame ==
    /\ UNCHANGED <<constructed, pipeline, newsFields>>
    /\ UNCHANGED <<execution_metrics, engine_trade_history,
                   price_impact_history, execution, venue, signalFields,
                   managerFields>>
    /\ UNCHANGED <<now, riskFields, call, breakerFields, cacheFields,
                   limiterFields, poolFields, scanFields, cycleFields>>

\* a handler sets bot_state and then awaits the broadcast
HandlerStarts(c, cmd, new_state) ==
    /\ bridge.handlers[c].pc = "idle"
    /\ bridge.commands < MaxCommands
    /\ bridge' = [bridge EXCEPT !.bot_state = new_state,
                                !.handlers[c] = [pc |-> "broadcast",
                                                 cmd |-> cmd],
                                !.commands = @ + 1]
    /\ BridgeFrame

handle_bot_start(c) == HandlerStarts(c, "START", "RUNNING")

handle_bot_pause(c) == HandlerStarts(c, "PAUSE", "PAUSED")

handle_bot_stop(c) == HandlerStarts(c, "STOP", "STOPPED")

handle_bot_kill(c) == HandlerStarts(c, "KILL", "STOPPED")

\* the task a handler sees as not done
TaskPending(b) ==
    /\ b.trading_task # 0
    /\ ~TaskDone(b.tasks[b.trading_task])

\* after its awaits _handle_bot_start creates a task unless trading_task is
\* one that is not done
start_resumes(c) ==
    /\ bridge.handlers[c] = [pc |-> "broadcast", cmd |-> "START"]
    /\ IF TaskPending(bridge)
       THEN bridge' = [bridge EXCEPT !.handlers[c] = NoHandler]
       ELSE bridge' = [bridge EXCEPT
                          !.tasks = Append(@, "created"),
                          !.trading_task = Len(bridge.tasks) + 1,
                          !.handlers[c] = NoHandler]
    /\ BridgeFrame

\* task.cancel(): a task that is not done is marked for cancellation
Cancelled(b) ==
    IF TaskPending(b)
    THEN [b EXCEPT !.tasks[b.trading_task] = "cancelling"]
    ELSE b

\* after its awaits _handle_bot_pause or _handle_bot_stop cancels the task;
\* _handle_bot_kill does so after the broadcast and then still announces
cancel_resumes(c) ==
    /\ bridge.handlers[c].pc = "broadcast"
    /\ bridge.handlers[c].cmd \in {"PAUSE", "STOP", "KILL"}
    /\ bridge' = [Cancelled(bridge) EXCEPT
                     !.handlers[c] =
                         IF bridge.handlers[c].cmd = "KILL"
                         THEN [pc |-> "announce", cmd |-> "KILL"]
                         ELSE NoHandler]
    /\ BridgeFrame

kill_returns(c) ==
    /\ bridge.handlers[c] = [pc |-> "announce", cmd |-> "KILL"]
    /\ bridge' = [bridge EXCEPT !.handlers[c] = NoHandler]
    /\ BridgeFrame

\* the task comes to the loop condition: it stays in the loop while
\* bot_state is RUNNING and returns otherwise
LoopChecks(t) ==
    \/ bridge.tasks[t] = "created"
    \/ bridge.tasks[t] = "running" /\ bridge.bot_state # "RUNNING"

ai_trading_loop(t) ==
    /\ t \in DOMAIN bridge.tasks
    /\ LoopChecks(t)
    /\ bridge' = [bridge EXCEPT !.tasks[t] =
                     IF bridge.bot_state = "RUNNING"
                     THEN "running" ELSE "finished"]
    /\ BridgeFrame

\* the CancelledError is raised in the task at its await, and re-raised
task_cancelled(t) ==
    /\ t \in DOMAIN bridge.tasks
    /\ bridge.tasks[t] = "cancelling"
    /\ bridge' = [bridge EXCEPT !.tasks[t] = "cancelled"]
    /\ BridgeFrame


ServiceInit ==
    /\ LimiterInit /\ PoolInit /\ ScanInit /\ CycleInit /\ ExecutionInit
    /\ SignalInit /\ ManagerInit /\ ObjectInit /\ PipelineInit
    /\ NewsInit /\ BridgeInit

\* the clock moves on to a later reading
Tick(readings) ==
    /\ \E t \in readings : t > now /\ now' = t
    /\ call' = CallOf("tick", BaseOpp, NoPortfolio, 0, FALSE)
    /\ UNCHANGED <<riskFields, engineFields>>

(***************************************************************************)
(* The risk manager's callers                                              *)
(***************************************************************************)
Balance100 == [balance |-> FromInt(100), active_value |-> Zero]
OppOn(v, t) == [v EXCEPT !.ticker = t]
Price30Opp ==
    [BaseOpp EXCEPT !.entry_price = FromInt(30), !.side = "no",
                    !.edge = Frac(15, 10), !.suggested_size = 40]

\* at most `max` trades in one run
TradesLeft(max) ==
    /\ Len(trade_history) < max
    /\ Len(hourly_trades) < max
    /\ Len(daily_trades) < max

\* record_trade at the size check_trade_risk approved, or at one of `sizes`
RecordTrade(os, pfs, sizes, max) ==
    \E o \in os, pf \in pfs :
        \E n \in ({check_trade_risk(o, pf)} \cup sizes) \ {0} :
            TradesLeft(max) /\ record_trade(o, n, pf)

InitRisk ==
    /\ now = 0
    /\ RiskInit
    /\ call = NoCall
    /\ BreakerInit
    /\ CacheInit(FALSE, FALSE)
    /\ ServiceInit

(***************************************************************************)
(* Sizing and cooldown: trades, price updates and checks                   *)
(***************************************************************************)
SizingOpps == { BaseOpp, OppOn(Price30Opp, "T2") }
CheckOpps ==
    { BaseOpp, OppOn(Price30Opp, "T2"),
      [BaseOpp EXCEPT !.probability = Frac(40, 100)],
      [BaseOpp EXCEPT !.probability = Frac(50, 100)] }
Balance2000 == [balance |-> FromInt(2000), active_value |-> Zero]

NextSizing ==
    \/ Tick({0, 4, 5})
    \/ \E o \in CheckOpps, pf \in {Balance100, Balance2000} :
           CheckTradeRisk(o, pf)
    \/ RecordTrade(SizingOpps, {Balance100}, {}, MaxTrades)
    \/ \E t \in Tickers, v \in VolSet \cup {volatility_estimate} :
           update_position_price(t, FromInt(60), v)

SpecSizing == InitRisk /\ [][NextSizing]_vars

\* the gates of check_trade_risk ahead of the Kelly computation
PassesGates(o) ==
    /\ o.ticker /= ""
    /\ ~circuit_breakers.daily_loss
    /\ ~circuit_breakers.drawdown
    /\ ~circuit_breakers.trade_frequency
    /\ FLe(config.min_edge, o.edge)
    /\ FLe(config.min_confidence, o.confidence)
    /\ FLe(config.min_liquidity_score, o.liquidity_score)
    /\ ~(/\ o.ticker \in DOMAIN ticker_last_trade
         /\ now - ticker_last_trade[o.ticker] < config.cooldown_period_minutes)
    /\ FLt(Zero, o.entry_price)
    /\ FLt(o.entry_price, FromInt(100))

\* f* = p - (1 - p) / b with b = (100 - price) / price, i.e.
\* (p * (100 - price) - (1 - p) * price) / (100 - price)
KellyStar(o) ==
    FDiv(FSub(FMul(o.probability, FSub(FromInt(100), o.entry_price)),
              FMul(FSub(One, o.probability), o.entry_price)),
         FSub(FromInt(100), o.entry_price))

\* the dollar budget of a trade: the clamped half-Kelly share of the balance,
\* shrunk by volatility, capped by the allocation and position limits
BudgetUsd(o, pf) ==
    LET half == FMul(KellyStar(o), Frac(1, 2))
        clamped == FMax(Frac(1, 100), FMin(half, Frac(1, 2)))
        vol == IF FLt(Frac(40, 100), volatility_estimate)
               THEN FMul(clamped, FDiv(Frac(40, 100), volatility_estimate))
               ELSE clamped
    IN  FMin(FMul(pf.balance, FMin(vol, Frac(10, 100))), FromInt(100))

\* the room left in the opportunity's correlation group, in dollars
RoomUsd(o, pf) ==
    FSub(FMul(pf.balance, Frac(30, 100)),
         ExposureOver(DOMAIN active_positions, o.correlation_group))

CostUsd(n, o) == FDiv(FMul(FromInt(n), o.entry_price), FromInt(100))

\* balance and limits allow one contract
Affordable(o, pf) ==
    /\ FLe(CostUsd(1, o), BudgetUsd(o, pf))
    /\ FLe(CostUsd(1, o), RoomUsd(o, pf))

\* C1: for an opportunity that passes the breaker, floor, cooldown and price
\* gates, check_trade_risk returns exactly 0 whenever the Kelly fraction
\* f* = p - (1-p)/b is <= 0, and a size >= 1 when f* > 0 and the balance and
\* the limits afford one contract; p = 0.6 at price 50 with balance 100 and
\* nothing held gives a size >= 1, p = 0.4 at price 50 gives 0.
C1_KellySign ==
    /\ \A o \in Opps, pf \in Portfolios :
           PassesGates(o) =>
               /\ FLe(KellyStar(o), Zero) => check_trade_risk(o, pf) = 0
               /\ (FLt(Zero, KellyStar(o)) /\ Affordable(o, pf))
                      => check_trade_risk(o, pf) >= 1
    /\ (PassesGates(BaseOpp) /\ active_positions = <<>>)
           => check_trade_risk(BaseOpp, Balance100) >= 1
    /\ PassesGates(BaseOpp)
           => check_trade_risk([BaseOpp EXCEPT !.probability = Frac(40, 100)],
                               Balance100) = 0

C1_Witness ==
    /\ call.op = "check_trade_risk"
    /\ call.opp = [BaseOpp EXCEPT !.probability = Frac(50, 100)]
    /\ PassesGates(call.opp)
    /\ call.size = 0
    /\ check_trade_risk(BaseOpp, call.pf) >= 1
    /\ active_positions /= <<>>

C3_CostWithinLimits ==
    \A o \in Opps, pf \in Portfolios :
        LET n == check_trade_risk(o, pf)
        IN  n >= 1 =>
                /\ FLe(CostUsd(n, o),
                       FMul(pf.balance, FMin(Frac(10, 100), Frac(25, 100))))
                /\ FLe(CostUsd(n, o), FromInt(100))

C3_Witness ==
    /\ call.op = "check_trade_risk"
    /\ call.pf = Balance2000
    /\ call.size >= 1
    /\ CostUsd(call.size, call.opp) = FromInt(100)
    /\ FLt(Frac(40, 100), volatility_estimate)

\* C5: after record_trade for a ticker (which stamps the ticker's last trade
\* time and no other ticker's), every check_trade_risk call for an
\* opportunity on that ticker returns 0 until cooldown_period_minutes have
\* passed since that trade, whatever its edge, probability or price; an
\* opportunity on another ticker is sized as if no ticker were cooling down.
C5_Cooldown ==
    /\ [](\A o \in Opps, pf \in Portfolios :
              IF /\ o.ticker \in DOMAIN ticker_last_trade
                 /\ now - ticker_last_trade[o.ticker] < 5
              THEN check_trade_risk(o, pf) = 0
              ELSE (/\ PassesGates(o)
                    /\ FLt(Zero, KellyStar(o))
                    /\ Affordable(o, pf)) => check_trade_risk(o, pf) >= 1)
    /\ [][call'.op = "record_trade" =>
              /\ ticker_last_trade'[call'.opp.ticker] = now
              /\ \A t \in DOMAIN ticker_last_trade \ {call'.opp.ticker} :
                     ticker_last_trade'[t] = ticker_last_trade[t]]_vars

C5_Witness ==
    /\ call.op = "check_trade_risk"
    /\ call.size >= 1
    /\ \E t \in DOMAIN ticker_last_trade :
           /\ t /= call.opp.ticker
           /\ now - ticker_last_trade[t] < 5
           /\ \E o \in Opps : o.ticker = t /\ KellyStar(o).n > 0

(***************************************************************************)
(* Breakers: portfolio updates, trades and the daily and weekly resets     *)
(***************************************************************************)
NextRiskBreakers ==
    \/ Tick({0, 5, 60, 1440})
    \/ \E pf \in Portfolios \ {Balance2000} : update_portfolio_state(pf)
    \/ TradesLeft(MaxTrades) /\ record_trade(BaseOpp, 1, Balance100)
    \/ reset_daily_metrics
    \/ reset_weekly_metrics

SpecRiskBreakers == InitRisk /\ [][NextRiskBreakers]_vars

\* the trades recorded after the cutoff, by the history's timestamps
TradesRecordedAfter(cutoff) ==
    Cardinality({ i \in 1..Len(trade_history) :
                      trade_history[i].timestamp > cutoff })

Equity(pf) == FAdd(pf.balance, pf.active_value)

\* what C6 says of the peak, the drawdown and the drawdown flag right after
\* update_portfolio_state(pf)
PeakAndDrawdownAfterUpdate(pf) ==
    /\ peak_balance' = FMax(peak_balance, Equity(pf))
    /\ FLt(Zero, peak_balance') =>
           current_drawdown' =
               FDiv(FSub(peak_balance', Equity(pf)), peak_balance')
    /\ circuit_breakers'.drawdown <=>
           \/ FLt(Frac(20, 100), current_drawdown')
           \/ FLt(Frac(15, 100), intraday_drawdown')

\* C6: right after update_portfolio_state the peak is the largest
\* equity seen, the drawdown is (peak - equity) / peak, the drawdown flag is
\* set iff a drawdown limit is exceeded, and the trade_frequency flag is set
\* iff the trades recorded in the trailing hour number max_trades_per_hour or
\* more, or those of the trailing day max_trades_per_day or more.
C6_StateAfterUpdate ==
    [][call'.op = "update_portfolio_state" =>
          /\ PeakAndDrawdownAfterUpdate(call'.pf)
          /\ circuit_breakers'.trade_frequency <=>
                 \/ TradesRecordedAfter(now - HourMinutes) >= MaxTradesPerHour
                 \/ TradesRecordedAfter(now - DayMinutes) >= MaxTradesPerDay]_vars

(***************************************************************************)
(* Concentration: trades recorded at the approved size, at the balance the *)
(* engine passes (trading_engine.py, self.portfolio)                       *)
(***************************************************************************)
MaxConcTrades == 5
ConcTickers == {"T1", "T2", "T3", "T4"}
ConcOpps ==
    { OppOn(Price30Opp, t) : t \in ConcTickers }
        \cup { BaseOpp,
               OppOn([BaseOpp EXCEPT !.correlation_group = "macro"], "T2") }

NextConc ==
    \/ Tick({0, 5})
    \/ RecordTrade(ConcOpps, {Balance100}, {}, MaxConcTrades)
    \/ record_trade_result("T1", Zero, FromInt(60))

SpecConc == InitRisk /\ [][NextConc]_vars

\* C4: over any sequence of trades each sized by check_trade_risk and then
\* recorded by record_trade at the approved size, at an unchanged balance, the
\* summed exposure (size * entry_price / 100) of the open positions of any one
\* correlation group never exceeds balance * max_concentration; an approved
\* size fits the room that is left, and the size is 0 when no room is left.
C4_ConcentrationCap ==
    /\ \A g \in {"crypto", "macro"} :
           FLe(ExposureOver(DOMAIN active_positions, g),
               FMul(Balance100.balance, Frac(30, 100)))
    /\ \A o \in ConcOpps :
           LET n == check_trade_risk(o, Balance100)
           IN  /\ n >= 1 => FLe(CostUsd(n, o), RoomUsd(o, Balance100))
               /\ FLe(RoomUsd(o, Balance100), Zero) => n = 0

\* a trade shrunk to the room left has filled the group to its cap
C4_Witness ==
    /\ call.op = "record_trade"
    /\ call.size = 1
    /\ Cardinality(DOMAIN active_positions) = 4
    /\ ExposureOver(DOMAIN active_positions, "crypto") = FromInt(30)
    /\ \A o \in ConcOpps :
           o.correlation_group = "crypto" => check_trade_risk(o, Balance100) = 0

(***************************************************************************)
(* The trade execution breaker under concurrent callers                    *)
(***************************************************************************)
\* time.time() is positive
InitCircuitBreaker ==
    /\ now = 1
    /\ RiskInit
    /\ call = NoCall
    /\ BreakerInit
    /\ CacheInit(FALSE, FALSE)
    /\ ServiceInit

NextCircuitBreaker ==
    \/ Tick({31, 32, 63})
    \/ \E c \in Callers : BreakerCall(c)
    \/ \E c \in Callers : BreakerCallReturns(c)
    \/ \E c \in Callers : BreakerCallRaises(c)

SpecCircuitBreaker == InitCircuitBreaker /\ [][NextCircuitBreaker]_vars

\* the breaker is open and no more than recovery_timeout has passed since
\* it opened
OpenWithinTimeout ==
    /\ state = "open"
    /\ now - breaker_log.opened_at <= RecoveryTimeout

\* C7: a failure that completes a run of failure_threshold consecutive
\* failing calls leaves the breaker open; while the breaker is open and no
\* more than recovery_timeout has passed since it opened, no caller is let
\* in to run its operation: a call made then is rejected.
C7_OpensAndRejects ==
    [][/\ (/\ failure_count' = failure_count + 1
           /\ breaker_log'.consecutive_failures >= FailureThreshold)
          => state' = "open"
       /\ OpenWithinTimeout
          => /\ \A c \in Callers :
                    in_flight[c] = "none" => in_flight'[c] = "none"
             /\ breaker_log'.event /= "admitted"]_vars

\* exactly failure_threshold calls failed in a row from the start, and a
\* call made recovery_timeout after the breaker opened was rejected
C7_Witness ==
    /\ state = "open"
    /\ failure_count = FailureThreshold
    /\ breaker_log.consecutive_failures = FailureThreshold
    /\ breaker_log.event = "rejected"
    /\ now - breaker_log.opened_at = RecoveryTimeout

\* C8: while the call that turned the breaker half-open is in flight, no
\* other caller is let in: at most one operation runs as the trial.
C8_SingleTrial ==
    [][(\E t \in Callers : in_flight[t] = "trial")
          => \A c \in Callers :
                 in_flight[c] = "none" => in_flight'[c] = "none"]_vars

\* C9: when the trial call returns, the breaker is closed with
\* failure_count 0; when it raises, the breaker is open and the time the
\* recovery timeout is measured from is the time of that failure.
C9_HalfOpenOutcome ==
    [][\A t \in Callers :
          (in_flight[t] = "trial" /\ in_flight'[t] = "none")
              => IF breaker_log'.event = "returned"
                 THEN state' = "closed" /\ failure_count' = 0
                 ELSE /\ state' = "open"
                      /\ last_failure_time' = now
                      /\ ~RecoveryElapsed']_vars

(***************************************************************************)
(* The cache with and without a remote store                               *)
(***************************************************************************)
InitCache ==
    /\ now = 1
    /\ RiskInit
    /\ call = NoCall
    /\ BreakerInit
    /\ \E r \in BOOLEAN, o \in BOOLEAN : CacheInit(r, o)
    /\ ServiceInit

NextCache ==
    \/ Tick({16})
    \/ \E k \in CacheKeys, r \in RemoteOutcomes : get(k, r)
    \/ \E k \in CacheKeys, t \in Ttls, r \in RemoteOutcomes :
           set(k, CachedUnder(k), t, r)
    \/ \E k \in CacheKeys, r \in RemoteOutcomes : delete(k, r)
    \/ \E ks \in SUBSET CacheKeys \ {{}}, r \in RemoteOutcomes :
           get_many(ks, r)

SpecCache == InitCache /\ [][NextCache]_vars

\* C10: a get of k that directly follows set(k, v, ttl), with no time
\* elapsed and no other cache operation between them, returns v.
C10_SetThenGet ==
    [][(/\ cache_log.op = "set"
        /\ cache_log'.op = "get"
        /\ cache_log'.key = cache_log.key
        /\ cache_log'.at = cache_log.at)
          => cache_log'.result = cache_log.value]_vars

\* the get about to be made of `key` is answered by the local tier
ServedLocally(key, remote) == ~(RemoteOf(remote) = "ok" /\ RemoteHas(key))

\* C11: a get answered by the local tier never returns an entry whose expiry
\* has passed: when the key's local entry has now >= expiry the get returns
\* None and the key is gone from the value map and from the expiry map, and
\* a value the local tier returns has now < expiry.
C11_NoExpiredLocalHit ==
    [][\A k \in CacheKeys :
          (/\ cache_log'.op = "get"
           /\ cache_log'.key = k
           /\ hits' + misses' = hits + misses + 1
           /\ ServedLocally(k, cache_log'.remote)
           /\ k \in DOMAIN local_cache)
              => IF now >= LocalExpiry(k)
                 THEN /\ cache_log'.result = PyNone
                      /\ k \notin DOMAIN local_cache'
                      /\ k \notin LocalKeys(local_ttl')
                 ELSE cache_log'.result = local_cache[k]]_vars

\* an entry set with ttl 15 at time 1 was read at time 16 and removed
C11_Witness ==
    /\ cache_log.op = "get"
    /\ cache_log.expired
    /\ cache_log.at = 16
    /\ cache_log.result = PyNone
    /\ cache_log.key \notin DOMAIN local_cache
    /\ cache_log.key \notin LocalKeys(local_ttl)
    /\ misses = 1

\* C12: with a remote store configured, a set leaves the entry in the local
\* map with its value and its computed expiry, whether the remote write
\* succeeded or failed; and a get of that key that follows the set before
\* the expiry and meets a remote failure returns the value.
C12_WriteThrough ==
    [][/\ (redis /\ cache_log'.op = "set" /\ cache_log' /= cache_log)
          => /\ cache_log'.key \in DOMAIN local_cache'
             /\ local_cache'[cache_log'.key] = cache_log'.value
             /\ \E i \in 1..Len(local_ttl') :
                    /\ local_ttl'[i].key = cache_log'.key
                    /\ local_ttl'[i].expires \in
                           { now + EffectiveTtl(t) : t \in Ttls }
       /\ (/\ redis
           /\ cache_log.op = "set"
           /\ cache_log'.op = "get"
           /\ cache_log'.key = cache_log.key
           /\ cache_log'.remote = "failing"
           /\ now < cache_log.at + 15)
          => cache_log'.result = cache_log.value]_vars

\* what the local tier alone answers for the key
LocalAnswer(key) ==
    IF key \in DOMAIN local_cache /\ LocalFresh(key)
    THEN local_cache[key] ELSE PyNone

\* C13: a call whose remote operation raises completes and is served from,
\* or applied to, the local map: get and get_many return what the local map
\* holds unexpired, set writes the entry to the local map (where the
\* capacity eviction then applies), delete removes the key from both local
\* maps; the remote data is left as it was.
C13_RemoteFailureDegradesToLocal ==
    [][(/\ cache_log'.remote = "failing"
        /\ cache_log' /= cache_log
        /\ cache_log'.at = now)
          => /\ redis_data' = redis_data
             /\ cache_log'.op = "get"
                    => cache_log'.result = LocalAnswer(cache_log'.key)
             /\ cache_log'.op = "get_many"
                    => \A k \in DOMAIN cache_log'.result :
                           cache_log'.result[k] = LocalAnswer(k)
             /\ cache_log'.op = "set"
                    => \/ /\ cache_log'.key \in DOMAIN local_cache'
                          /\ local_cache'[cache_log'.key] = cache_log'.value
                          /\ cache_log'.key \in LocalKeys(local_ttl')
                       \/ Cardinality(DOMAIN local_cache
                                          \cup {cache_log'.key}) > LocalMaxSize
             /\ cache_log'.op = "delete"
                    => /\ cache_log'.key \notin DOMAIN local_cache'
                       /\ cache_log'.key \notin LocalKeys(local_ttl')]_vars

\* a set whose remote write raised left the entry in the local map, and the
\* remote store empty
C13_Witness ==
    /\ redis
    /\ cache_log.op = "set"
    /\ cache_log.remote = "failing"
    /\ cache_log.key \in DOMAIN local_cache
    /\ local_cache[cache_log.key] = cache_log.value
    /\ redis_data = <<>>

(***************************************************************************)
(* The cache without a remote store (AsyncCache(default_ttl=60)), on three *)
(* keys                                                                    *)
(***************************************************************************)
LocalOnlyKeys == CacheKeys \cup {"opp_T2"}

InitLocalCache ==
    /\ now = 1
    /\ RiskInit
    /\ call = NoCall
    /\ BreakerInit
    /\ CacheInit(FALSE, FALSE)
    /\ ServiceInit

NextLocalCache ==
    \/ Tick({16})
    \/ \E k \in LocalOnlyKeys : get(k, "ok")
    \/ \E k \in LocalOnlyKeys, t \in Ttls : set(k, CachedUnder(k), t, "ok")
    \/ \E k \in LocalOnlyKeys : delete(k, "ok")
    \/ \E ks \in SUBSET LocalOnlyKeys \ {{}} : get_many(ks, "ok")

SpecLocalCache == InitLocalCache /\ [][NextLocalCache]_vars

InitEngine ==
    /\ now = 1
    /\ RiskInit
    /\ call = NoCall
    /\ BreakerInit
    /\ CacheInit(FALSE, FALSE)
    /\ ServiceInit

NextRateLimiter ==
    \/ Tick({3, 11, 21})
    \/ \E c \in Requesters : RateLimitedCall(c)
    \/ \E c \in Requesters : RateLimitedCallWakes(c)
    \/ \E c \in Requesters : RateLimitedCallEnds(c)

SpecRateLimiter == InitEngine /\ [][NextRateLimiter]_vars

\* C15: the start times of any two outbound calls are at least
\* min_request_interval apart.
C15_RequestSpacing ==
    \A i, j \in 1..Len(request_timestamps) :
        i < j => request_timestamps[j] - request_timestamps[i]
                     >= MinRequestInterval

(***************************************************************************)
(* The connection pool under concurrent callers                            *)
(***************************************************************************)
NextConnectionPool ==
    \/ \E c \in PoolCallers : acquire(c)
    \/ \E c \in PoolCallers : acquire_resumes(c)
    \/ \E c \in PoolCallers : release(c)

SpecConnectionPool == InitEngine /\ [][NextConnectionPool]_vars

Holders(session) ==
    {c \in PoolCallers : pooled[c].pc = "holding" /\ pooled[c].session = session}

Idles(session) == {i \in 1..Len(pool) : pool[i] = session}

\* C16: the pool never creates more than max_connections sessions, and every
\* session is idle in the queue or held by one caller, never both.  An
\* acquire takes the longest-idle session when the queue is not empty, and
\* creates a session only when the queue is empty and fewer than
\* max_connections exist; otherwise it waits and creates nothing, and a
\* waiting caller comes to hold a session only by taking one that a release
\* put into the queue.
C16_PoolBounded ==
    /\ [](/\ active_connections <= max_connections
          /\ \A c \in PoolCallers :
                pooled[c].pc = "holding"
                    => pooled[c].session \in 1..active_connections
          /\ \A h \in 1..max_connections :
                Cardinality(Holders(h)) + Cardinality(Idles(h))
                    = (IF h <= active_connections THEN 1 ELSE 0))
    /\ [][\A c \in PoolCallers :
            /\ (pooled[c].pc = "idle" /\ pooled'[c].pc /= "idle")
                  => IF pool /= <<>>
                     THEN /\ pooled'[c] = [pc |-> "holding",
                                           session |-> Head(pool)]
                          /\ pool' = Tail(pool)
                          /\ active_connections' = active_connections
                     ELSE IF active_connections < max_connections
                     THEN /\ pooled'[c] = [pc |-> "holding",
                                           session |-> active_connections + 1]
                          /\ active_connections' = active_connections + 1
                          /\ pool' = pool
                     ELSE /\ pooled'[c].pc = "waiting"
                          /\ active_connections' = active_connections
                          /\ pool' = pool
            /\ (pooled[c].pc \in {"waiting", "woken"}
                    /\ pooled'[c].pc = "holding")
                  => /\ pool /= <<>>
                     /\ pooled'[c].session = Head(pool)
                     /\ pool' = Tail(pool)
                     /\ active_connections' = active_connections]_vars

\* every session exists, one caller was made to wait and now holds a session
\* that another caller released
C16_Witness ==
    /\ active_connections = max_connections
    /\ pool_log.event = "resumed"
    /\ pooled[pool_log.caller] =
           [pc |-> "holding", session |-> pool_log.session]
    /\ \E c \in PoolCallers : pooled[c].pc = "waiting"

(***************************************************************************)
(* Scans and cycles                                                        *)
(***************************************************************************)
ScanSteps ==
    \/ \E t \in target_series : SeriesFetchStarts(t)
    \/ \E t \in target_series, o \in FetchOutcomes : SeriesFetchAnswers(t, o)
    \/ \E b \in BOOLEAN, r \in RemoteOutcomes : SeriesGathered(b, r)
    \/ \E o \in {"markets", "raises"}, b \in BOOLEAN, r \in RemoteOutcomes :
           FallbackAnswers(o, b, r)

NextScan ==
    \/ \E r \in RemoteOutcomes : ScanMarketsParallel(r)
    \/ ScanSteps
    \/ ScanResultTaken

SpecScan == InitEngine /\ [][NextScan]_vars

NextCycle ==
    \/ \E r \in RemoteOutcomes : FindBestOpportunities(r)
    \/ ScanSteps
    \/ AnalysesStart
    \/ \E t \in ScanTickers : AnalysisStarts(t)
    \/ \E t \in ScanTickers, r \in RemoteOutcomes : AnalysisCacheAnswers(t, r)
    \/ \E t \in ScanTickers, m \in FetchOutcomes, ok \in BOOLEAN :
           AnalysisFetched(t, m, ok)
    \/ \E t \in ScanTickers, s \in strategies : StrategyStarts(t, s)
    \/ \E t \in ScanTickers, s \in strategies, o \in StrategyOutcomes :
           StrategyEnds(t, s, o)
    \/ \E t \in ScanTickers, o \in OrderbookOutcomes, r \in RemoteOutcomes :
           AnalysisEnds(t, o, r)
    \/ RankAndReturn
    \/ OpportunitiesTaken

SpecCycle == InitEngine /\ [][NextCycle]_vars

AnalysesInFlight ==
    {t \in ScanTickers :
        analysis[t].pc \in {"reading", "fetching", "strategies"}}

\* the opportunities of the cycle's markets that have an edge
WithEdge == {t \in cycle.markets : analysis[t].edge = "positive"}

\* C17: within a cycle no analysis exists while the scan is pending and none
\* starts before the scan has returned; check_trade_risk is called, and the
\* ranked list returned, only when every analysis of the cycle has finished
\* and none is in flight; and the list is returned only when every
\* opportunity with an edge has been through check_trade_risk.
C17_StageBarriers ==
    /\ [](scan.pc /= "idle" =>
              \A t \in ScanTickers : analysis[t].pc = "none")
    /\ [][/\ \A t \in ScanTickers :
               (analysis[t].pc = "queued" /\ analysis'[t].pc /= "queued")
                   => /\ cycle.pc = "analysing"
                      /\ scan.pc = "idle"
                      /\ \A s \in target_series : series[s].pc = "none"
          /\ (cycle'.checked /= cycle.checked
                 \/ (cycle.pc = "analysing" /\ cycle'.pc = "returned"))
                => /\ \A t \in cycle.markets : analysis[t].pc = "done"
                   /\ AnalysesInFlight = {}
          /\ (cycle.pc = "analysing" /\ cycle'.pc = "returned")
                => /\ cycle'.checked = WithEdge
                   /\ cycle'.opps \subseteq cycle'.checked]_vars

\* three markets were scanned and analysed, and the cycle returned one of
\* them after its risk check
C17_Witness ==
    /\ cycle.pc = "returned"
    /\ cycle.markets = ScanTickers
    /\ scan.outcome = "scanned"
    /\ cycle.opps /= {}
    /\ cycle.checked /= cycle.opps

\* C18: never more than three series fetches, max_concurrent_analysis
\* analyses, or max_concurrent_strategies strategies of one market are in
\* flight, and each semaphore counts the permits that are left.
C18_BoundedFanOut ==
    /\ Cardinality(SeriesInFlight) <= MaxSeriesFetches
    /\ scan.pc = "series" =>
           scan_semaphore = MaxSeriesFetches - Cardinality(SeriesInFlight)
    /\ Cardinality(AnalysesInFlight) <= max_concurrent_analysis
    /\ cycle.pc = "analysing" =>
           analysis_semaphore =
               max_concurrent_analysis - Cardinality(AnalysesInFlight)
    /\ \A t \in ScanTickers :
           /\ Cardinality(StrategiesRunning(t)) <= max_concurrent_strategies
           /\ analysis[t].pc = "strategies" =>
                  strategy_semaphore[t] =
                      max_concurrent_strategies
                          - Cardinality(StrategiesRunning(t))

\* the analyses and the strategies of one market are at their limits, with
\* an analysis and a strategy waiting for a permit
C18_Witness ==
    /\ Cardinality(AnalysesInFlight) = max_concurrent_analysis
    /\ \E t \in ScanTickers : analysis[t].pc = "queued"
    /\ \E t \in ScanTickers :
           /\ Cardinality(StrategiesRunning(t)) = max_concurrent_strategies
           /\ \E s \in strategies : strategy[t][s] = "queued"

CycleStage ==
    CASE cycle.pc = "scanning" -> 2 [] cycle.pc = "analysing" -> 1
      [] OTHER -> 0

ScanStage ==
    CASE scan.pc = "series" -> 3 [] scan.pc = "fallback" -> 2
      [] scan.pc = "returned" -> 1 [] OTHER -> 0

SeriesStageOf(task) ==
    CASE task.pc = "queued" -> FetchAttempts + 1
      [] task.pc = "fetching" -> FetchAttempts - task.attempt
      [] OTHER -> 0

AnalysisStageOf(task) ==
    CASE task.pc = "queued" -> 4 [] task.pc = "reading" -> 3
      [] task.pc = "fetching" -> 2 [] task.pc = "strategies" -> 1
      [] OTHER -> 0

StrategyStageOf(pc) ==
    CASE pc = "queued" -> 2 [] pc = "running" -> 1 [] OTHER -> 0

\* one task moves towards its end and the others stay where they are
TaskAdvances ==
    \/ \E s \in target_series :
          /\ SeriesStageOf(series'[s]) < SeriesStageOf(series[s])
          /\ \A u \in target_series \ {s} : series'[u] = series[u]
    \/ \E t \in ScanTickers :
          /\ \A u \in ScanTickers \ {t} :
                analysis'[u] = analysis[u] /\ strategy'[u] = strategy[u]
          /\ \/ AnalysisStageOf(analysis'[t]) < AnalysisStageOf(analysis[t])
             \/ /\ AnalysisStageOf(analysis'[t]) = AnalysisStageOf(analysis[t])
                /\ \E s \in strategies :
                      /\ StrategyStageOf(strategy'[t][s])
                             < StrategyStageOf(strategy[t][s])
                      /\ \A u \in strategies \ {s} :
                            strategy'[t][u] = strategy[t][u]

\* the cycle is nearer to its return, in the order of (cycle stage, scan
\* stage, task stages)
Progress ==
    \/ CycleStage' < CycleStage
    \/ /\ CycleStage' = CycleStage
       /\ \/ ScanStage' < ScanStage
          \/ ScanStage' = ScanStage /\ TaskAdvances

Pending == cycle.pc \in {"scanning", "analysing"}

\* some task of the cycle can take a step
CanStep ==
    \/ scan.pc \in {"returned", "fallback"}
    \/ /\ scan.pc = "series"
       /\ \/ \A s \in target_series : series[s].pc = "done"
          \/ \E s \in target_series : series[s].pc = "fetching"
          \/ /\ \E s \in target_series : series[s].pc = "queued"
             /\ scan_semaphore > 0
    \/ /\ cycle.pc = "analysing"
       /\ \/ \A t \in cycle.markets : analysis[t].pc = "done"
          \/ \E t \in cycle.markets : analysis[t].pc \in {"reading", "fetching"}
          \/ /\ \E t \in cycle.markets : analysis[t].pc = "queued"
             /\ analysis_semaphore > 0
          \/ \E t \in cycle.markets :
                /\ analysis[t].pc = "strategies"
                /\ \/ \A s \in strategies : strategy[t][s] = "done"
                   \/ \E s \in strategies : strategy[t][s] = "running"
                   \/ /\ \E s \in strategies : strategy[t][s] = "queued"
                      /\ strategy_semaphore[t] > 0

\* C20: a cycle that has started can always take a step and every step
\* brings it nearer to its return, whatever the fetches, the strategies and
\* the cache do, so it ends, and it ends by returning a list; the list holds
\* every market of the cycle whose analysis returned an opportunity with an
\* edge that the risk manager gives a size, whichever other analyses failed.
C20_CycleNeverAborts ==
    /\ [](/\ cycle.opps \subseteq cycle.markets
          /\ Pending => CanStep)
    /\ [][/\ Pending => Progress
          /\ (cycle.pc = "analysing" /\ cycle'.pc /= "analysing")
                => /\ cycle'.pc = "returned"
                   /\ cycle'.opps =
                          {t \in WithEdge :
                              check_trade_risk(OpportunityOf(t),
                                               EnginePortfolio) > 0}]_vars

\* the analysis of one market failed and the cycle returned another market
C20_Witness ==
    /\ cycle.pc = "returned"
    /\ \E t \in cycle.markets : analysis[t].failed
    /\ cycle.opps /= {}

(***************************************************************************)
(* Orders under the trade execution breaker                                *)
(***************************************************************************)
NextExecution ==
    \/ Tick({31, 32, 63})
    \/ \E c \in Callers : ExecuteTradeFast(c, BaseOpp)
    \/ \E c \in Callers, answer \in OrderAnswers : OrderReturns(c, answer)
    \/ \E c \in Callers : OrderRaises(c)
    \/ \E c \in Callers : ExecutionTaken(c)

SpecExecution == InitEngine /\ [][NextExecution]_vars

\* C21: no call of execute_trade_fast ends by raising; a call whose order
\* raised returns False; a call the breaker rejects returns False and sends
\* no order; total_orders counts exactly the orders that came back and
\* filled_orders only some of those, so filled_orders <= total_orders.
C21_ExecuteNeverRaises ==
    /\ [](/\ \A c \in Callers : execution[c].pc /= "raised"
          /\ execution_metrics.filled_orders <= execution_metrics.total_orders
          /\ execution_metrics.total_orders = venue.answered)
    /\ [][\A c \in Callers :
            /\ (execution[c].pc = "idle" /\ execution'[c].pc /= "idle"
                    /\ BreakerRejects)
                  => /\ execution'[c].pc = "returned"
                     /\ execution'[c].result = "False"
                     /\ venue'.submitted = venue.submitted
            /\ (execution[c].pc = "ordering" /\ execution'[c].pc = "returned"
                    /\ venue'.answered = venue.answered)
                  => /\ execution'[c].result = "False"
                     /\ execution_metrics' = execution_metrics]_vars

\* the breaker is open and has rejected a caller, who got False, after
\* orders that came back and an order that raised
C21_Witness ==
    /\ state = "open"
    /\ breaker_log.event = "rejected"
    /\ execution[breaker_log.caller].result = "False"
    /\ ~execution[breaker_log.caller].submitted
    /\ execution_metrics.total_orders >= 1
    /\ execution_metrics.filled_orders < execution_metrics.total_orders

\* C22: a call of execute_trade_fast that returns True has appended one
\* entry to the engine's trade_history, and the entry's ticker is the
\* opportunity's ticker.
C22_ExecutionRecorded ==
    [][\A c \in Callers :
          (execution[c].result /= "True" /\ execution'[c].result = "True")
             => /\ Len(engine_trade_history') = Len(engine_trade_history) + 1
                /\ engine_trade_history'[Len(engine_trade_history')].ticker
                       = execution[c].ticker]_vars

(***************************************************************************)
(* Position sizing at balance 100                                          *)
(***************************************************************************)
\* test_position_sizing: edge 10, confidence 1, entry_price 0.50,
\* liquidity 1, probability 0.6, the default correlation group
TestSizingOpp ==
    [BaseOpp EXCEPT !.edge = FromInt(10), !.entry_price = Frac(1, 2),
                    !.suggested_size = 0, !.correlation_group = "general"]

PositionSizingOpps ==
    { TestSizingOpp, BaseOpp, OppOn(Price30Opp, "T2"),
      [BaseOpp EXCEPT !.entry_price = FromInt(5)],
      [BaseOpp EXCEPT !.probability = Frac(40, 100)] }

NextPositionSizing ==
    \/ Tick({0, 4, 5})
    \/ \E o \in PositionSizingOpps : CheckTradeRisk(o, Balance100)
    \/ RecordTrade(SizingOpps, {Balance100}, {}, MaxTrades)
    \/ \E t \in Tickers, v \in VolSet \cup {volatility_estimate} :
           update_position_price(t, FromInt(60), v)

SpecPositionSizing == InitRisk /\ [][NextPositionSizing]_vars

\* the contract count the test calls the maximum position size
MaxPositionContracts == 50

\* C23: at balance 100 with the default RiskConfig, an opportunity with a
\* positive Kelly fraction that check_trade_risk approves is given a size
\* of at least 1 and at most 50 contracts.
C23_SizeWithinLimit ==
    (/\ call.op = "check_trade_risk"
     /\ call.pf = Balance100
     /\ FLt(Zero, KellyFraction(call.opp))
     /\ call.size /= 0)
        => call.size > 0 /\ call.size <= MaxPositionContracts

(***************************************************************************)
(* Signal aggregation                                                      *)
(***************************************************************************)
NextSignals ==
    \/ \E o \in SignalValues : StrategyAnswers(o)
    \/ AggregateSignals
    \/ NextMarket

SpecSignals == InitEngine /\ [][NextSignals]_vars

\* every signal of the list is on `side`
Unanimous(xs, side) == \A i \in 1..Len(xs) : xs[i].side = side

C25_AggregateTotal ==
    aggregated.outcome /= "not called"
        => /\ aggregated.outcome \in {"None", "opportunity"}
           /\ aggregated.outcome = "None" <=> signals = <<>>
           /\ Len(signals) = 1 => aggregated.value = signals[1]
           /\ \A side \in {"yes", "no"} :
                  (Len(signals) >= 2 /\ Unanimous(signals, side))
                     => aggregated =
                            create_consensus_opportunity(signals, side)
           /\ (/\ Len(signals) >= 2
               /\ ~Unanimous(signals, "yes")
               /\ ~Unanimous(signals, "no"))
                 => /\ \E i \in 1..Len(signals) :
                           aggregated.value = signals[i]
                    /\ \A i \in 1..Len(signals) :
                           FLe(score(signals[i]), score(aggregated.value))

(***************************************************************************)
(* The strategies of one market                                            *)
(***************************************************************************)
NextStrategies ==
    \/ AnalyzeMarket
    \/ \E i \in DOMAIN AllStrategies : RunStrategy(i)
    \/ \E i \in DOMAIN AllStrategies, o \in StrategyOpps :
           \E outcome \in StrategyOutcomes : RunStrategyEnds(i, outcome, o)
    \/ AnalyzeMarketReturns
    \/ AnalyzeMarketTaken

SpecStrategies == InitEngine /\ [][NextStrategies]_vars

\* the strategies whose run came back with an opportunity
Contributors ==
    {i \in DOMAIN AllStrategies : runs[i].outcome = "opportunity"}

\* C26: analyze_market never ends by raising; when it returns, the list
\* holds the weighted opportunity of every strategy that returned one, in
\* the order of the strategies, and nothing else: a strategy that raised
\* adds nothing and takes nothing away.
C26_StrategyIsolation ==
    /\ manager.pc \in {"idle", "gathering", "returned"}
    /\ manager.pc = "returned"
          => /\ Len(manager.opportunities) = Cardinality(Contributors)
             /\ \A i \in Contributors :
                    \E k \in 1..Len(manager.opportunities) :
                        /\ manager.opportunities[k] = runs[i].opp
                        /\ k = Cardinality({j \in Contributors : j <= i})

\* one strategy raised and the two others' opportunities were returned
C26_Witness ==
    /\ manager.pc = "returned"
    /\ \E i \in DOMAIN AllStrategies : runs[i].outcome = "raises"
    /\ Len(manager.opportunities) = 2

\* the markets of the list a cycle returned
RankedTickers == {cycle.ranked[i].ticker : i \in 1..Len(cycle.ranked)}

\* edge * confidence of the opportunity the analysis of t returned
EdgeTimesConfidence(t) ==
    LET o == OpportunityOf(t) IN FMul(o.edge, o.confidence)

NextConstruction ==
    \/ \E raw \in RawOpps : Construct(raw)
    \/ Discard

SpecConstruction == InitEngine /\ [][NextConstruction]_vars

\* lo <= x <= hi for a float x that is a number
Within(x, lo, hi) == x /= NaN /\ ~PyLt(x, lo) /\ ~PyLt(hi, x)

\* C28: every MarketOpportunity that a construction returns has confidence,
\* probability and liquidity_score in [0, 1], entry_price in [0, 100],
\* edge >= 0, an integer suggested_size >= 0, and side yes or no.
C28_ClampingLaw ==
    constructed.outcome = "opportunity"
        => LET o == constructed.value
           IN  /\ Within(o.confidence, Zero, One)
               /\ Within(o.probability, Zero, One)
               /\ Within(o.liquidity_score, Zero, One)
               /\ Within(o.entry_price, Zero, FromInt(100))
               /\ Within(o.edge, Zero, Inf)
               /\ o.suggested_size \in Nat
               /\ o.side \in {"yes", "no"}

\* a construction from out-of-range arguments, a nan among them, came back
\* with every field at a limit and the side at its default
C28_Witness ==
    /\ constructed.outcome = "opportunity"
    /\ constructed.value.confidence = One
    /\ constructed.value.probability = Zero
    /\ constructed.value.entry_price = FromInt(100)
    /\ constructed.value.edge = Zero
    /\ constructed.value.suggested_size = 0
    /\ constructed.value.side = "yes"

(***************************************************************************)
(* One market from its data to an order                                    *)
(***************************************************************************)
NextPipeline ==
    \/ \E market \in MarketDicts, orderbook \in Orderbooks :
           PipelineAnalyses(market, orderbook)
    \/ PipelineSizes
    \/ /\ pipeline.stage = "sized"
       /\ venue.calls = 0
       /\ ExecuteTradeFast("A", pipeline.opportunity)
    \/ \E answer \in OrderAnswers : OrderReturns("A", answer)
    \/ OrderRaises("A")
    \/ ExecutionTaken("A")
    \/ PipelineEnds

SpecPipeline == InitEngine /\ [][NextPipeline]_vars

\* yes_bid=40, yes_ask=42, last_price=41, no ask 58, on a liquid market
ScenarioMarket ==
    [ticker |-> "T1", yes_bid |-> 40, yes_ask |-> 42, no_ask |-> 58,
     last_price |-> 41, volume |-> 20000]

\* the order books that leave the fair probability at 0.41
ScenarioBooks ==
    {b \in Orderbooks : b.present => b.bid_count = b.ask_count}

\* C29: the scenario market (balance 100, yes_bid 40, yes_ask 42, last_price
\* 41, no ask 58, fundamental min_edge 0.1) comes out of the analysis as an
\* opportunity on no with an edge of about 1.0, check_trade_risk under the
\* default config gives it a small positive size (1 to 10 contracts), and its execution, when
\* it returns True, adds one trade to the engine's history.
C29_EndToEnd ==
    /\ []((/\ pipeline.stage /= "idle"
           /\ pipeline.market = ScenarioMarket
           /\ pipeline.orderbook \in ScenarioBooks)
             => /\ pipeline.opportunity.side = "no"
                /\ FLe(Frac(9, 10), pipeline.opportunity.edge)
                /\ FLe(pipeline.opportunity.edge, Frac(11, 10))
                /\ pipeline.stage \in {"analysed", "sized"}
                /\ pipeline.stage = "sized"
                      => pipeline.size \in 1..10)
    /\ [][(/\ pipeline.stage = "sized"
           /\ pipeline.market = ScenarioMarket
           /\ execution["A"].result /= "True"
           /\ execution'["A"].result = "True")
             => /\ Len(engine_trade_history') = Len(engine_trade_history) + 1
                /\ engine_trade_history'[Len(engine_trade_history')].ticker
                       = ScenarioMarket.ticker]_vars

\* C30: the opportunity of a strategy that analyze_market_fast returns, and
\* that is handed to check_trade_risk, has as probability an estimate that
\* its own side wins: on no, the strategy's estimate for no or the
\* complement of the yes mid price.
C30_OwnSideProbability ==
    (/\ pipeline.stage \in {"analysed", "sized", "rejected"}
     /\ pipeline.signal.outcome = "opportunity"
     /\ pipeline.opportunity.side = "no")
        => pipeline.opportunity.probability
               \in {pipeline.signal.value.probability,
                    FSub(One, calculate_mid_price(pipeline.orderbook))}

\* C31: the probability of a consensus opportunity is the confidence-weighted
\* average of the agreeing signals' probabilities, each the win probability
\* of the agreed side, on yes and on no alike.
C31_ConsensusProbability ==
    \A side \in {"yes", "no"} :
        (/\ aggregated.outcome = "opportunity"
         /\ Len(signals) >= 2
         /\ Unanimous(signals, side))
            => FMul(aggregated.value.probability,
                    FSum(Confidences(signals)))
                   = FSum(WeightedBy(signals, ProbabilityOf))

(***************************************************************************)
(* Trade frequency: trades, checks, portfolio updates and the resets       *)
(***************************************************************************)
NextFrequency ==
    \/ Tick({0, 60})
    \/ update_portfolio_state(Balance100)
    \/ TradesLeft(MaxTrades) /\ record_trade(BaseOpp, 1, Balance100)
    \/ CheckTradeRisk(OppOn(BaseOpp, "T2"), Balance100)
    \/ reset_daily_metrics
    \/ reset_weekly_metrics

SpecFrequency == InitRisk /\ [][NextFrequency]_vars

\* C32: check_trade_risk returns 0 whenever the trades that record_trade
\* recorded in the trailing hour number max_trades_per_hour or more, or
\* those of the trailing day max_trades_per_day or more, whether or not
\* update_portfolio_state ran since the last record_trade.
C32_FrequencyHalt ==
    [][(/\ call'.op = "check_trade_risk"
        /\ \/ TradesRecordedAfter(now - HourMinutes) >= MaxTradesPerHour
           \/ TradesRecordedAfter(now - DayMinutes) >= MaxTradesPerDay)
          => call'.size = 0]_vars

(***************************************************************************)
(* Daily loss: trade results and portfolio updates                         *)
(***************************************************************************)
\* the results of closed trades, in dollars
Pnls == {FromInt(-20), FromInt(-5), FromInt(10), FromInt(20)}

\* the largest |daily_pnl| of a run, in dollars
MaxPnl == 40

NextDailyLoss ==
    \/ \E pnl \in Pnls :
           /\ FLe(FAbs(FAdd(daily_pnl, pnl)), FromInt(MaxPnl))
           /\ record_trade_result("T1", pnl, FromInt(60))
    \/ \E pf \in {Balance100, Balance2000} : update_portfolio_state(pf)

SpecDailyLoss == InitRisk /\ [][NextDailyLoss]_vars

\* C33: after any sequence of record_trade_result and update_portfolio_state
\* calls, the daily_loss flag is false while the cumulative daily_pnl is
\* zero or a profit.
C33_DailyLossOnlyOnLosses ==
    FLe(Zero, daily_pnl) => ~circuit_breakers.daily_loss

(***************************************************************************)
(* Recording: trades on a funded and on an empty portfolio                 *)
(***************************************************************************)
NextRecording ==
    \/ Tick({0, 5})
    \/ \E o \in SizingOpps, n \in {1, 2}, pf \in {Balance100, NoPortfolio} :
           TradesLeft(MaxTrades) /\ record_trade(o, n, pf)
    \/ \E t \in Tickers : record_trade_result(t, Zero, FromInt(60))

SpecRecording == InitRisk /\ [][NextRecording]_vars

\* C34: after any record_trade call, one that raises included, the Position
\* of the ticker is stored and the trade time is appended to the hourly and
\* daily buffers if and only if the TradeRecord of the trade was appended to
\* trade_history.
C34_RecordAllOrNothing ==
    [][call'.op = "record_trade" =>
          LET ticker == call'.opp.ticker
              stored ==
                  /\ ticker \in DOMAIN active_positions'
                  /\ active_positions'[ticker] =
                         NewPosition(call'.opp, call'.size)
                  /\ hourly_trades' = Append(hourly_trades, now)
                  /\ daily_trades' = Append(daily_trades, now)
              appended ==
                  /\ Len(trade_history') = Len(trade_history) + 1
                  /\ trade_history'[Len(trade_history')].ticker = ticker
                  /\ trade_history'[Len(trade_history')].size = call'.size
          IN  stored <=> appended]_vars

\* C35: a call that returns while the breaker is closed leaves failure_count
\* at 0, and the breaker goes from closed to open only on a failure that
\* completes failure_threshold failures with no returned call between them.
C35_OnlyConsecutiveFailuresOpen ==
    [][/\ (/\ state = "closed"
           /\ breaker_log'.event = "returned"
           /\ \E c \in Callers :
                  in_flight[c] /= "none" /\ in_flight'[c] = "none")
          => failure_count' = 0
       /\ (state = "closed" /\ state' = "open")
          => breaker_log'.consecutive_failures >= FailureThreshold]_vars

\* min(99, entry_price + 1)
ImpactPrice(o) == PyInt(FMin(FromInt(99), FAdd(o.entry_price, One)))

\* C36: the limit price of an order that execute_trade_fast submits is
\* min(99, entry_price + 1) when more than 5 earlier executions of the
\* ticker were successful, and the entry price otherwise.
C36_PriceImpact ==
    [][\A c \in Callers :
          (execution[c].pc = "idle" /\ execution'[c].pc = "ordering")
              => /\ execution'[c].ticker = BaseOpp.ticker
                 /\ execution'[c].price =
                        IF venue.filled[BaseOpp.ticker] > 5
                        THEN ImpactPrice(BaseOpp)
                        ELSE PyInt(BaseOpp.entry_price)]_vars

\* the markets of a list that the scan is to return: those with a ticker
\* and a tradeable status
TradeableTickers(markets) ==
    {markets[i].ticker : i \in {j \in 1..Len(markets) :
                                   /\ markets[j].ticker /= ""
                                   /\ Tradeable(markets[j])}}

\* C37: within one scan no series is asked more than three times; the third
\* failed or empty attempt ends the fetch of the series, which then
\* contributes no market; and a scan that returns its list returns the
\* markets of the series that answered (and of the fallback request), each
\* ticker once and only those with a tradeable status.
C37_RetryCap ==
    /\ [](\A s \in target_series :
              /\ series[s].pc = "fetching" => series[s].attempt < FetchAttempts
              /\ s \in scan.exhausted => series[s].pc \in {"done", "none"})
    /\ [][/\ \A s \in target_series :
                (/\ series[s].pc = "fetching"
                 /\ series[s].attempt = FetchAttempts - 1
                 /\ series'[s] /= series[s])
                    => /\ series'[s].pc = "done"
                       /\ scan_semaphore' = scan_semaphore + 1
                       /\ s \in scan'.exhausted => ~series'[s].found
          /\ (scan.pc = "series" /\ scan'.pc = "fallback")
                => /\ scan'.markets =
                          Extended(SeriesOrder,
                                   {s \in target_series : series[s].found})
                   /\ \A s \in scan.exhausted : ~series[s].found
          /\ (/\ scan.pc = "fallback"
              /\ scan'.pc = "returned"
              /\ scan'.outcome = "scanned")
                => /\ \A i, j \in 1..Len(scan'.listed) :
                          scan'.listed[i].ticker = scan'.listed[j].ticker
                              => i = j
                   /\ \A i \in 1..Len(scan'.listed) :
                          /\ Tradeable(scan'.listed[i])
                          /\ scan'.listed[i].ticker /= ""
                   /\ TradeableTickers(scan.markets)
                          \subseteq TickersOf(scan'.listed)
                   /\ TickersOf(scan'.listed)
                          \subseteq TradeableTickers(scan.markets
                                                        \o FallbackMarkets)
                   /\ scan'.returned = TickersOf(scan'.listed)]_vars

\* a scan returned the markets of KXINX and BTC after FED and ETH had failed
\* three times each; T4, which is closed, is not among them
C37_Witness ==
    /\ scan.pc = "returned"
    /\ scan.outcome = "scanned"
    /\ scan.exhausted = {"FED", "ETH"}
    /\ TickersOf(scan.listed) = {"T2", "T3"}
    /\ Len(scan.listed) = 2

(***************************************************************************)
(* News refresh: concurrent analyze_market calls of the sentiment strategy *)
(***************************************************************************)
NextNews ==
    \/ Tick({300, 601, 1202})
    \/ \E c \in Callers : UpdateNews(c)
    \/ \E c \in Callers, o \in FeedOutcomes : FeedAnswers(c, o)

SpecNews == InitEngine /\ [][NextNews]_vars

RoundsInFlight == {c \in Callers : news_tasks[c].pc = "fetching"}

\* C38: no two rounds of feed requests are in flight at the same time, and
\* a round starts no sooner than 600 seconds after the round before it
\* started, whatever the feeds answered.
C38_NewsRefreshWindow ==
    /\ [](Cardinality(RoundsInFlight) <= 1)
    /\ [][(news_log'.rounds = news_log.rounds + 1 /\ news_log.rounds > 0)
             => now - news_log.started_at >= StalenessSeconds]_vars

(***************************************************************************)
(* The pool with callers that release what they hold and with an event     *)
(* loop that runs every woken getter                                       *)
(***************************************************************************)
SpecConnectionPoolFair ==
    /\ InitEngine
    /\ [][NextConnectionPool]_vars
    /\ \A c \in PoolCallers :
           /\ WF_vars(release(c))
           /\ WF_vars(acquire_resumes(c))

\* C39: with more callers than sessions, and every session that is held
\* released in the end, every caller that waits in acquire comes to hold a
\* session in the end.
C39_AcquireReturns ==
    \A c \in PoolCallers :
        (pooled[c].pc \in {"waiting", "woken"}) ~> (pooled[c].pc = "holding")

NextBridge ==
    \/ \E c \in Clients : handle_bot_start(c)
    \/ \E c \in Clients : handle_bot_pause(c)
    \/ \E c \in Clients : handle_bot_stop(c)
    \/ \E c \in Clients : handle_bot_kill(c)
    \/ \E c \in Clients : start_resumes(c)
    \/ \E c \in Clients : cancel_resumes(c)
    \/ \E c \in Clients : kill_returns(c)
    \/ \E t \in 1..MaxCommands : ai_trading_loop(t)
    \/ \E t \in 1..MaxCommands : task_cancelled(t)

SpecBridge == InitEngine /\ [][NextBridge]_vars

LiveTasks ==
    {t \in DOMAIN bridge.tasks : bridge.tasks[t] \in {"created", "running"}}

\* every handler has returned, and the task has taken the steps that the
\* handlers left it: no cancellation is pending and no loop condition is due
BridgeSettled ==
    /\ \A c \in Clients : bridge.handlers[c].pc = "idle"
    /\ \A t \in DOMAIN bridge.tasks :
           /\ bridge.tasks[t] # "cancelling"
           /\ ~LoopChecks(t)

\* C40: there are never two live trading-loop tasks, and once all the
\* handlers of START, PAUSE, STOP and KILL have completed, bot_state is
\* RUNNING if and only if exactly one trading-loop task is alive.
C40_RunningIffOneTask ==
    /\ Cardinality(LiveTasks) <= 1
    /\ BridgeSettled =>
           ((bridge.bot_state = "RUNNING") <=> (Cardinality(LiveTasks) = 1))

====
